---- MODULE Spec2Model ----
(***************************************************************************)
(* A model of github.com/c2FmZQ/storage: the lock manager, the transaction *)
(* engine (OpenForUpdate / OpenManyForUpdate and the commit closure), the  *)
(* backup / restore / delete of multi-file commits and the crash recovery  *)
(* that New() runs.                                                        *)
(*                                                                         *)
(* Spec      one caller running transactions on a store, with failing      *)
(*           writes, process death and recovery.                           *)
(* LockSpec  several callers of LockMany / OpenForUpdate on the same       *)
(*           directory, with time passing and stale-lock reaping.          *)
(* ManySpec  several callers of LockMany with lists of names.              *)
(* SaveSpec  a caller of SaveDataFile on one file and a reader that takes  *)
(*           no lock.                                                      *)
(***************************************************************************)
EXTENDS Integers, Sequences, FiniteSets, TLC

----------------------------------------------------------------------------
(* Bounds of the model.                                                    *)

NumFiles == 2
MaxTx == 1
NumProcs == 2
MaxOps == 3
MaxTicks == 3
TickSeconds == 315
MaxSaves == 2
MaxRaceTicks == 1
ChunkSize == 2
MaxPlain == 5
MaxBuf == 3
MaxValue == 2
MaxBytes == 2
MaxPad == 2
RaceTickSeconds == 5

(* The master key is saved MaxKeySaves times at most, and its file is      *)
(* KeyFileSize bytes long.                                                 *)
MaxKeySaves == 3
KeyFileSize == 3

(* Encrypt is given messages of MaxMsgLen bytes at most.                   *)
MaxMsgLen == 33

(* Containers have one of NumNames names, whose contexts start with one of *)
(* NumCtx values.                                                          *)
NumNames == 3
NumCtx == 2

Files == 1..NumFiles
TxIds == 1..MaxTx
Procs == 1..NumProcs

----------------------------------------------------------------------------
(* File contents.  A container holds an encoded object; wid stands for the *)
(* random material of one write (file key, padding), so that two writes of *)
(* the same object are different bytes.  full is FALSE while the container *)
(* is still being written.                                                 *)

NoFile == [obj |-> -1, wid |-> -1, full |-> FALSE]
Container(o, w) == [obj |-> o, wid |-> w, full |-> TRUE]
PartialContainer(o, w) == [obj |-> o, wid |-> w, full |-> FALSE]

(* Errors.  cause is what errors.Is matches: fmt.Errorf("%w %v", first,    *)
(* rest) wraps the first error and only prints the others.                 *)

Err(k, n) == [kind |-> k, cause |-> <<k, n>>, rest |-> <<>>]
Nil == Err("nil", 0)
ErrRolledBack == Err("rolled back", 0)
ErrAlreadyRolledBack == Err("already rolled back", 0)
ErrAlreadyCommitted == Err("already committed", 0)
ErrNotExist(f) == Err("ENOENT", f)
WriteErr(f) == Err("write", f)
CopyErr(f) == Err("copy", f)
CallerError == Err("caller", 0)
ErrorsIs(e, target) == e.cause = target.cause
Wrap(k, list) ==
  [kind |-> k, cause |-> list[1].cause,
   rest |-> [i \in 1..(Len(list) - 1) |-> list[i + 1].cause]]

----------------------------------------------------------------------------
VARIABLES
  file,        \* [Files -> container]: the live data files
  bck,         \* [TxIds -> [Files -> container or NoFile]]: <file>.bck-<ts>
  pend,        \* [TxIds -> "none" | "partial" | "full" | "rec"]: pending/<ts>
  pendFiles,   \* [TxIds -> SUBSET Files]: the Files field of the record
  lock,        \* [Files -> BOOLEAN]: <file>.lock exists
  masterKey,   \* BOOLEAN: the store has a master key (files are encrypted)
  pc,          \* where the caller is
  ntx,         \* transactions started so far; the current one's timestamp
  files,       \* the files of the current transaction
  obj,         \* [Files -> object]: the caller's objects, read and modified
  st,          \* [Files -> progress of the per-file goroutine of the phase]
  called,      \* closure variable
  committed,   \* closure variable
  commit,      \* the first call's commit argument
  errpCaller,  \* errp points at the caller's variable (else at retErr)
  errp,        \* the value of *errp
  callerErr,   \* the caller's error variable
  errorList,   \* errors received from the goroutines of the phase
  backup,      \* backup != nil
  recList,     \* recovery: the pending records still to roll back
  ret,         \* what the last call of the closure returned
  firstRet,    \* what the first call of the closure returned
  calls,       \* calls of the closure so far: 0, 1, or 2 for two and more
  pre,         \* the files when the transaction was opened
  held,        \* lock files the transaction created and that still exist
  crashPc,     \* where the transaction was when the process died
  recovered    \* a Storage was constructed after the process died

diskVars == <<file, bck, pend, pendFiles, lock, masterKey>>
closureVars == <<files, obj, st, called, committed, commit, errpCaller, errp,
                 callerErr, errorList, backup>>
histVars == <<ret, firstRet, calls, pre, held, crashPc, recovered>>
txVars == <<file, bck, pend, pendFiles, lock, masterKey, pc, ntx, files, obj,
            st, called, committed, commit, errpCaller, errp, callerErr,
            errorList, backup, recList, ret, firstRet, calls, pre, held,
            crashPc, recovered>>

(* Several callers and the lock files (LockSpec).                          *)
VARIABLES
  lockAge,     \* [Files -> -1 | ticks]: age of <file>.lock, -1 when absent
  lpc,         \* [Procs -> where the caller is]
  sorted,      \* [Procs -> the sorted names of the caller's LockMany]
  idx,         \* [Procs -> index in sorted of the Lock / Unlock under way]
  deadline,    \* [Procs -> deadline of the Lock under way, 0 before drawn]
  update,      \* [Procs -> the call is an OpenForUpdate]
  rd,          \* [Procs -> the value read by OpenForUpdate]
  data,        \* [Files -> value stored in the data file]
  commits,     \* [Files -> number of commits made on the data file]
  holds,       \* [Procs -> names locked by the caller and not yet unlocked]
  everStale,   \* some lock file has been 600 seconds old or more
  ops          \* calls started so far

lockVars == <<lockAge, lpc, sorted, idx, deadline, update, rd, data, commits,
              holds, everStale, ops>>

(* SaveDataFile and an unlocked reader on one file (SaveSpec).  Contents   *)
(* live in inodes; a path names an inode.                                  *)
VARIABLES
  inode,       \* [inode id -> container], in order of creation
  fpath,       \* the inode the file's path names
  wpc,         \* where the caller of SaveDataFile is
  wtmp,        \* the inode the caller writes to, 0 when none
  wret,        \* what the last SaveDataFile returned
  rpc,         \* where the reader is
  rfd,         \* the inode the reader has open, 0 when none
  rgot,        \* what the last ReadDataFile found in the file
  atOpen,      \* the container at the path when the reader opened it
  atCall,      \* the container at the path when SaveDataFile was called
  saves        \* SaveDataFile calls so far

saveVars == <<inode, fpath, wpc, wtmp, wret, rpc, rfd, rgot, atOpen, atCall,
              saves>>

(* A second Storage constructed on the directory while the first one has   *)
(* a commit under way (RaceSpec).                                          *)
VARIABLES
  newPc,       \* where New() of the second Storage is
  m,           \* the entries of pending that Glob returned, still to do
  rel,         \* the entry it has read: "rec", "tmp" (temporary) or "none"
  newSt,       \* [Files -> progress of the goroutine of its restore]
  recAge       \* [TxIds -> ticks since the pending record was written]

raceVars == <<newPc, m, rel, newSt, recAge>>

(* An encrypted stream: the stream writer, then a stream reader on what    *)
(* it wrote (StreamSpec).  A plaintext byte is its offset in the plaintext.*)
VARIABLES
  plen,        \* the length of the plaintext
  spc,         \* "write", "closed" (written, no reader yet) or "read"
  rest,        \* plaintext bytes not yet given to Write
  split,       \* the plaintext was given in more than one Write
  wbuf,        \* AESStreamWriter.buf
  wc,          \* AESStreamWriter.c
  out,         \* the chunks written to the underlying writer, in order
  corrupt,     \* the chunk that was corrupted afterwards, 0 when none
  fpos,        \* position of the reader's input, in chunks from its start
  off,         \* AESStreamReader.off
  buf,         \* AESStreamReader.buf
  pos,         \* the plaintext offset the caller is at
  res,         \* the last call on the reader and what it returned
  lastSeek,    \* whence of the last Seek, "outside" if not to 0..plen
  hist,        \* calls made so far: "reads", "seeks" or "seekend"
  failed       \* a Read has returned ErrDecryptFailed

streamVars == <<plen, spc, rest, split, wbuf, wc, out, corrupt, fpos, off, buf,
                pos, res, lastSeek, hist, failed>>

(* The container codec (DataSpec).                                         *)
VARIABLES
  useGOB,      \* Storage.useGOB
  compress,    \* Storage.compress
  dpc,         \* "idle", "saved" or "read"
  disk,        \* the container in the file
  wobj,        \* the object given to SaveDataFile
  dst,         \* the object given to ReadDataFile, as it was before
  got,         \* the object given to ReadDataFile, as it is after
  rderr        \* what ReadDataFile returned

dataVars == <<useGOB, compress, dpc, disk, wobj, dst, got, rderr>>

(* The file of the master key, and the Save of it under way (KeySpec).     *)
VARIABLES
  keyFile,     \* the key file: whose data it holds and how many bytes of it
  keySave      \* AESMasterKey.Save: where it is, and the data it writes

keyVars == <<keyFile, keySave>>

(* AES-CBC with HMAC: Encrypt and Decrypt, and the wrapping of a file key   *)
(* (CbcSpec).  A byte is a number; a byte of ciphertext is the byte it     *)
(* encrypts plus 256.                                                      *)
VARIABLES
  cmsg,        \* the bytes given to Encrypt, or key() of the key NewKey made
  cenc,        \* what Encrypt returned; for a key, its encryptedKey
  cfile,       \* the bytes in the writer WriteEncryptedKey wrote to
  cres         \* the last call and what it returned

cbcVars == <<cmsg, cenc, cfile, cres>>

baseVars == <<txVars, lockVars, saveVars, raceVars, streamVars, dataVars>>

(* A container written for a name, the name it is read under, and the      *)
(* reader OpenBlobRead returned (BlobSpec).                                *)
VARIABLES
  blob,        \* the container, the name it was written for, where it is
  rdr,         \* the seekWrapper: its start and where its stream is
  bres         \* the last call on the container or the reader, its result

blobVars == <<blob, rdr, bres>>

moreVars == <<keyVars, cbcVars, blobVars>>

restVars == <<raceVars, streamVars, dataVars, moreVars>>

vars == <<txVars, lockVars, saveVars, restVars>>

(* No caller of the lock manager is active.                                *)
LockQuiet ==
  /\ lockAge = [f \in Files |-> -1]
  /\ lpc = [p \in Procs |-> "idle"]
  /\ sorted = [p \in Procs |-> <<>>]
  /\ idx = [p \in Procs |-> 0]
  /\ deadline = [p \in Procs |-> 0]
  /\ update = [p \in Procs |-> FALSE]
  /\ rd = [p \in Procs |-> 0]
  /\ data = [f \in Files |-> 0]
  /\ commits = [f \in Files |-> 0]
  /\ holds = [p \in Procs |-> {}]
  /\ everStale = FALSE
  /\ ops = 0

(* No second Storage is being constructed.                                 *)
RaceQuiet ==
  /\ newPc = "idle"
  /\ m = <<>>
  /\ rel = "none"
  /\ newSt = [f \in Files |-> "ok"]
  /\ recAge = [t \in TxIds |-> 0]

(* No stream is written or read.                                           *)
NoResult == [op |-> "none", arg |-> 0, n |-> 0, err |-> "nil", data |-> <<>>]

StreamQuiet ==
  /\ plen = 0
  /\ spc = "write"
  /\ rest = 0
  /\ split = FALSE
  /\ wbuf = <<>>
  /\ wc = 0
  /\ out = <<>>
  /\ corrupt = 0
  /\ fpos = 0
  /\ off = 0
  /\ buf = <<>>
  /\ pos = 0
  /\ res = NoResult
  /\ lastSeek = "none"
  /\ hist = "reads"
  /\ failed = FALSE

(* Nothing is saved or read through the codec.                            *)
DataQuiet ==
  /\ useGOB = TRUE
  /\ compress = FALSE
  /\ dpc = "idle"
  /\ disk = [hdr |-> [magic |-> "KRIN", flags |-> 0], key |-> FALSE,
             body |-> <<>>]
  /\ wobj = [kind |-> "struct", val |-> 0]
  /\ dst = [kind |-> "struct", val |-> 0]
  /\ got = [kind |-> "struct", val |-> 0]
  /\ rderr = "nil"

(* The key file is complete and no Save is under way.                      *)
KeyQuiet ==
  /\ keyFile = [gen |-> 0, iter |-> "many", len |-> KeyFileSize]
  /\ keySave = [pc |-> "idle", gen |-> 0, iter |-> "many", err |-> FALSE,
                prev |-> [gen |-> 0, iter |-> "many", len |-> KeyFileSize]]

(* Nothing has been encrypted.                                             *)
CbcQuiet ==
  /\ cmsg = <<>>
  /\ cenc = <<>>
  /\ cfile = <<>>
  /\ cres = [op |-> "none", err |-> "nil", data |-> <<>>]

(* No container has been written.                                          *)
BlobQuiet ==
  /\ blob = [c |-> [hdr |-> [magic |-> "KRIN", flags |-> 0], key |-> FALSE,
                    body |-> <<>>],
             final |-> 0, at |-> 0, o |-> [kind |-> "struct", val |-> 0]]
  /\ rdr = [open |-> FALSE, enc |-> FALSE, start |-> 0, ctx |-> <<0, 0>>,
            off |-> 0, buf |-> <<>>, fpos |-> 0]
  /\ bres = [op |-> "none", err |-> "nil", n |-> 0, from |-> 0,
             data |-> <<>>, seekFailed |-> FALSE]

MoreQuiet == KeyQuiet /\ CbcQuiet /\ BlobQuiet

RestQuiet == RaceQuiet /\ StreamQuiet /\ DataQuiet /\ MoreQuiet

(* The file exists, complete, and nobody saves or reads it.                *)
SaveQuiet ==
  /\ inode = <<Container(0, 0)>>
  /\ fpath = 1
  /\ wpc = "idle"
  /\ wtmp = 0
  /\ wret = "none"
  /\ rpc = "idle"
  /\ rfd = 0
  /\ rgot = NoFile
  /\ atOpen = NoFile
  /\ atCall = Container(0, 0)
  /\ saves = 0

----------------------------------------------------------------------------
(* Helpers.                                                                *)

Max(S) == CHOOSE x \in S : \A y \in S : y <= x
Min(S) == CHOOSE x \in S : \A y \in S : x <= y

RECURSIVE SortedSeq(_)
SortedSeq(S) == IF S = {} THEN <<>> ELSE <<Min(S)>> \o SortedSeq(S \ {Min(S)})

AllTodo == [f \in Files |-> IF f \in files THEN "todo" ELSE "ok"]
Joined == \A f \in files : st[f] \in {"ok", "err"}

(* sort.Strings on a list of names (duplicates kept).                      *)
RECURSIVE Insert(_, _)
Insert(x, s) ==
  IF s = <<>> THEN <<x>>
  ELSE IF x <= Head(s) THEN <<x>> \o s
  ELSE <<Head(s)>> \o Insert(x, Tail(s))

RECURSIVE SortStrings(_)
SortStrings(s) == IF s = <<>> THEN <<>> ELSE Insert(Head(s), SortStrings(Tail(s)))

Reverse(s) == [i \in 1..Len(s) |-> s[Len(s) + 1 - i]]

(* UnlockMany: Unlock in reverse sorted order, stopping at the first       *)
(* os.Remove that fails.  L is the lock files, the result the lock files   *)
(* afterwards and the error returned.                                      *)
RECURSIVE UnlockWalk(_, _)
UnlockWalk(L, s) ==
  IF s = <<>> THEN [lock |-> L, err |-> Nil]
  ELSE IF L[Head(s)] THEN UnlockWalk([L EXCEPT ![Head(s)] = FALSE], Tail(s))
  ELSE [lock |-> L, err |-> ErrNotExist(Head(s))]

UnlockMany(L, filenames) == UnlockWalk(L, Reverse(SortStrings(filenames)))

(* A restore whose renames do nothing.                                     *)
RenameBackupKeep(F, B, f) == [file |-> F, bck |-> B]

(* A restore whose rename of a missing backup takes the file away.         *)
RenameBackupMissingClears(F, B, f) ==
  IF B[f] = NoFile
  THEN [file |-> [F EXCEPT ![f] = NoFile], bck |-> B]
  ELSE IF B[f] # F[f]
       THEN [file |-> [F EXCEPT ![f] = B[f]], bck |-> [B EXCEPT ![f] = NoFile]]
       ELSE [file |-> F, bck |-> B]

(* os.Rename(<file>.bck-<ts>, <file>) of restore; ENOENT leaves both as    *)
(* they are, and so does a backup that is still the hard link copyFile     *)
(* made of the file (rename of two links to one inode does nothing).       *)
RenameBackup(F, B, f) ==
  IF B[f] # NoFile /\ B[f] # F[f]
  THEN [file |-> [F EXCEPT ![f] = B[f]], bck |-> [B EXCEPT ![f] = NoFile]]
  ELSE [file |-> F, bck |-> B]

----------------------------------------------------------------------------
(* The state after New() on an empty directory in which the data files     *)
(* have been saved once, and no transaction is open.                       *)

NoClosure ==
  /\ files = {}
  /\ obj = [f \in Files |-> 0]
  /\ st = [f \in Files |-> "ok"]
  /\ called = FALSE
  /\ committed = FALSE
  /\ commit = FALSE
  /\ errpCaller = FALSE
  /\ errp = Nil
  /\ callerErr = Nil
  /\ errorList = <<>>
  /\ backup = FALSE

ResetClosure ==
  /\ files' = {}
  /\ obj' = [f \in Files |-> 0]
  /\ st' = [f \in Files |-> "ok"]
  /\ called' = FALSE
  /\ committed' = FALSE
  /\ commit' = FALSE
  /\ errpCaller' = FALSE
  /\ errp' = Nil
  /\ callerErr' = Nil
  /\ errorList' = <<>>
  /\ backup' = FALSE

TxQuiet ==
  /\ file = [f \in Files |-> Container(0, 0)]
  /\ bck = [t \in TxIds |-> [f \in Files |-> NoFile]]
  /\ pend = [t \in TxIds |-> "none"]
  /\ pendFiles = [t \in TxIds |-> {}]
  /\ lock = [f \in Files |-> FALSE]
  /\ pc = "idle"
  /\ ntx = 0
  /\ NoClosure
  /\ recList = <<>>
  /\ ret = Nil
  /\ firstRet = Nil
  /\ calls = 0
  /\ pre = [f \in Files |-> Container(0, 0)]
  /\ held = {}
  /\ crashPc = "none"
  /\ recovered = FALSE

Init ==
  /\ TxQuiet
  /\ masterKey \in BOOLEAN
  /\ LockQuiet
  /\ SaveQuiet
  /\ RestQuiet

----------------------------------------------------------------------------
(* OpenManyForUpdate(fs, objects): LockMany, then every file is read into  *)
(* its object; the caller then modifies each object (here: adds one).      *)
(* Lock spins while a lock file exists, so the call returns only once all  *)
(* the lock files could be created.                                        *)

OpenManyForUpdate(fs) ==
  /\ pc = "idle"
  /\ ntx < MaxTx
  /\ fs # {}
  /\ \A f \in fs : ~lock[f] /\ file[f].full
  /\ ntx' = ntx + 1
  /\ files' = fs
  /\ lock' = [f \in Files |-> lock[f] \/ f \in fs]
  /\ held' = fs
  /\ obj' = [f \in Files |-> IF f \in fs THEN file[f].obj + 1 ELSE 0]
  /\ pre' = file
  /\ pc' = "open"
  /\ st' = [f \in Files |-> "ok"]
  /\ called' = FALSE
  /\ committed' = FALSE
  /\ commit' = FALSE
  /\ errpCaller' = FALSE
  /\ errp' = Nil
  /\ callerErr' = Nil
  /\ errorList' = <<>>
  /\ backup' = FALSE
  /\ ret' = Nil
  /\ firstRet' = Nil
  /\ calls' = 0
  /\ crashPc' = "none"
  /\ recovered' = FALSE
  /\ UNCHANGED <<file, bck, pend, pendFiles, masterKey, recList>>
  /\ UNCHANGED <<lockVars, saveVars, restVars>>

(* OpenManyForUpdate(fs, objects) in which ReadDataFile fails for some of  *)
(* the files: the locks are taken, the goroutines report, errorList is     *)
(* not nil.                                                                *)
ReadErr(f) == Err("read", f)

OpenManyReadFails(fs, bad) ==
  /\ pc = "idle"
  /\ ntx < MaxTx
  /\ bad # {}
  /\ bad \subseteq fs
  /\ \A f \in fs : ~lock[f]
  /\ ntx' = ntx + 1
  /\ files' = fs
  /\ lock' = [f \in Files |-> lock[f] \/ f \in fs]
  /\ held' = fs
  /\ pre' = file
  /\ pc' = "readfail"
  /\ errorList' = [i \in 1..Cardinality(bad) |-> ReadErr(SortedSeq(bad)[i])]
  /\ ret' = Nil
  /\ firstRet' = Nil
  /\ calls' = 0
  /\ crashPc' = "none"
  /\ recovered' = FALSE
  /\ UNCHANGED <<file, bck, pend, pendFiles, masterKey, obj, st, called,
                 committed, commit, errpCaller, errp, callerErr, backup,
                 recList>>
  /\ UNCHANGED <<lockVars, saveVars, restVars>>

(* s.UnlockMany(files), its error dropped, and                             *)
(* return nil, fmt.Errorf("s.ReadDataFile: ...").                          *)
OpenManyUnlock ==
  /\ pc = "readfail"
  /\ LET r == UnlockMany(lock, SortedSeq(files))
     IN /\ lock' = r.lock
        /\ held' = {f \in held : r.lock[f]}
  /\ ret' = Wrap("s.ReadDataFile", errorList)
  /\ pc' = "openfailed"
  /\ UNCHANGED <<file, bck, pend, pendFiles, masterKey, ntx, closureVars,
                 recList, firstRet, calls, pre, crashPc, recovered>>
  /\ UNCHANGED <<lockVars, saveVars, restVars>>

(* The caller goes on without a closure.                                   *)
OpenManyFailed ==
  /\ pc = "openfailed"
  /\ pc' = "idle"
  /\ ResetClosure
  /\ ret' = Nil
  /\ held' = {}
  /\ UNCHANGED <<diskVars, ntx, recList, firstRet, calls, pre, crashPc,
                 recovered>>
  /\ UNCHANGED <<lockVars, saveVars, restVars>>

(* return *errp from the first call of the closure.                        *)
Return(e) ==
  /\ pc' = "returned"
  /\ errp' = e
  /\ ret' = e
  /\ firstRet' = e
  /\ callerErr' = IF errpCaller THEN e ELSE callerErr

(* The first call commit(c, errp): hasPtr says errp # nil and v is the     *)
(* value of the caller's variable.  errp is redirected to retErr when it   *)
(* is nil or points at an error.                                           *)
CommitFirstCall(c, hasPtr, v) ==
  /\ pc = "open"
  /\ ~called
  /\ (~hasPtr => v = Nil)
  /\ called' = TRUE
  /\ commit' = c
  /\ callerErr' = v
  /\ errpCaller' = (hasPtr /\ v = Nil)
  /\ errp' = Nil
  /\ calls' = 1
  /\ st' = [f \in Files |-> IF f \in files THEN "todo" ELSE "ok"]
  /\ errorList' = <<>>
  /\ pc' = IF c THEN (IF Cardinality(files) > 1 THEN "backup" ELSE "save")
           ELSE "unlock"
  /\ UNCHANGED <<diskVars, ntx, files, obj, committed, backup, recList, ret,
                 firstRet, pre, held, crashPc, recovered>>
  /\ UNCHANGED <<lockVars, saveVars, restVars>>

(* A later call that would report every earlier call as a commit.         *)
CommitAgainAlwaysCommitted(c, hasPtr) ==
  /\ pc = "returned"
  /\ called
  /\ calls' = 2
  /\ ret' = ErrAlreadyCommitted
  /\ UNCHANGED <<diskVars, pc, ntx, closureVars, recList, firstRet, pre, held,
                 crashPc, recovered>>
  /\ UNCHANGED <<lockVars, saveVars, restVars>>

(* A later call of the closure.                                            *)
CommitAgain(c, hasPtr) ==
  /\ pc = "returned"
  /\ called
  /\ calls' = 2
  /\ ret' = IF committed THEN ErrAlreadyCommitted ELSE ErrAlreadyRolledBack
  /\ UNCHANGED <<diskVars, pc, ntx, closureVars, recList, firstRet, pre, held,
                 crashPc, recovered>>
  /\ UNCHANGED <<lockVars, saveVars, restVars>>

(* The caller drops the closure.                                           *)
Finish ==
  /\ pc = "returned"
  /\ pc' = "idle"
  /\ ResetClosure
  /\ ret' = Nil
  /\ firstRet' = Nil
  /\ calls' = 0
  /\ pre' = file
  /\ held' = {}
  /\ UNCHANGED <<diskVars, ntx, recList, crashPc, recovered>>
  /\ UNCHANGED <<lockVars, saveVars, restVars>>

----------------------------------------------------------------------------
(* commit(true) on more than one file: createBackup.                       *)

(* One goroutine of backup.backup(): copyFile links (or copies) the file   *)
(* to <file>.bck-<ts>; a missing file is not an error.                     *)
BackupCopy(f) ==
  /\ pc = "backup"
  /\ f \in files
  /\ st[f] = "todo"
  /\ \/ /\ bck' = [bck EXCEPT ![ntx][f] = file[f]]
        /\ st' = [st EXCEPT ![f] = "ok"]
        /\ UNCHANGED errorList
     \/ /\ st' = [st EXCEPT ![f] = "err"]
        /\ errorList' = Append(errorList, CopyErr(f))
        /\ UNCHANGED bck
  /\ UNCHANGED <<file, pend, pendFiles, lock, masterKey, pc, ntx, files, obj,
                 called, committed, commit, errpCaller, errp, callerErr,
                 backup, recList, histVars>>
  /\ UNCHANGED <<lockVars, saveVars, restVars>>

(* A createBackup that saved the pending record although a copy failed.    *)
BackupJoinAnyway ==
  /\ pc = "backup"
  /\ Joined
  /\ pc' = "pending"
  /\ st' = AllTodo
  /\ UNCHANGED <<diskVars, ntx, files, obj, called, committed, commit,
                 errpCaller, errp, callerErr, errorList, backup, recList,
                 histVars>>
  /\ UNCHANGED <<lockVars, saveVars, restVars>>

(* backup.backup() has heard from every goroutine: on an error it deletes  *)
(* the backup and createBackup fails, else the pending record is saved.    *)
BackupJoin ==
  /\ pc = "backup"
  /\ Joined
  /\ pc' = IF errorList # <<>> THEN "delete" ELSE "pending"
  /\ st' = AllTodo
  /\ UNCHANGED <<diskVars, ntx, files, obj, called, committed, commit,
                 errpCaller, errp, callerErr, errorList, backup, recList,
                 histVars>>
  /\ UNCHANGED <<lockVars, saveVars, restVars>>

(* s.SaveDataFile(b.pending, b): the record is written to                  *)
(* pending/<ts>.tmp-<now> and then renamed to pending/<ts>.                *)
PendingOpenTmp ==
  /\ pc = "pending"
  /\ pend[ntx] = "none"
  /\ pend' = [pend EXCEPT ![ntx] = "partial"]
  /\ pendFiles' = [pendFiles EXCEPT ![ntx] = files]
  /\ UNCHANGED <<file, bck, lock, masterKey, pc, ntx, closureVars, recList,
                 histVars>>
  /\ UNCHANGED <<lockVars, saveVars, restVars>>

PendingCloseTmp ==
  /\ pc = "pending"
  /\ pend[ntx] = "partial"
  /\ pend' = [pend EXCEPT ![ntx] = "full"]
  /\ UNCHANGED <<file, bck, pendFiles, lock, masterKey, pc, ntx, closureVars,
                 recList, histVars>>
  /\ UNCHANGED <<lockVars, saveVars, restVars>>

PendingRename ==
  /\ pc = "pending"
  /\ pend[ntx] = "full"
  /\ pend' = [pend EXCEPT ![ntx] = "rec"]
  /\ backup' = TRUE
  /\ pc' = "save"
  /\ UNCHANGED <<file, bck, pendFiles, lock, masterKey, ntx, files, obj, st,
                 called, committed, commit, errpCaller, errp, callerErr,
                 errorList, recList, histVars>>
  /\ UNCHANGED <<lockVars, saveVars, restVars>>

(* SaveDataFile of the record fails (opening the temporary file, writing   *)
(* it, or renaming it): createBackup returns the error and the closure     *)
(* returns it at once.                                                     *)
PendingFail ==
  /\ pc = "pending"
  /\ Return(WriteErr(0))
  /\ UNCHANGED <<diskVars, ntx, files, obj, st, called, committed, commit,
                 errpCaller, errorList, backup, recList, calls, pre, held,
                 crashPc, recovered>>
  /\ UNCHANGED <<lockVars, saveVars, restVars>>

----------------------------------------------------------------------------
(* commit(true): one goroutine per file runs SaveDataFile.                 *)

(* writeFile writes the container to <file>.tmp-<now> (created with        *)
(* O_EXCL) and closes it.                                                  *)
SaveWriteTmp(f) ==
  /\ pc = "save"
  /\ f \in files
  /\ st[f] = "todo"
  /\ st' = [st EXCEPT ![f] = "tmp"]
  /\ UNCHANGED <<diskVars, pc, ntx, files, obj, called, committed, commit,
                 errpCaller, errp, callerErr, errorList, backup, recList,
                 histVars>>
  /\ UNCHANGED <<lockVars, saveVars, restVars>>

(* What SaveDataFile leaves at the file's path once the temporary file is  *)
(* complete: os.Rename(tmp, file).                                         *)
SaveRenameResult(F, f, o, w) == [F EXCEPT ![f] = Container(o, w)]

SaveRename(f) ==
  /\ pc = "save"
  /\ f \in files
  /\ st[f] = "tmp"
  /\ file' = SaveRenameResult(file, f, obj[f], ntx)
  /\ st' = [st EXCEPT ![f] = "ok"]
  /\ UNCHANGED <<bck, pend, pendFiles, lock, masterKey, pc, ntx, files, obj,
                 called, committed, commit, errpCaller, errp, callerErr,
                 errorList, backup, recList, histVars>>
  /\ UNCHANGED <<lockVars, saveVars, restVars>>

(* A SaveDataFile that wrote the container at the file's path itself, as   *)
(* CreateEmptyFile does, would leave a partial container there.            *)
SaveFailInPlace(F, f, o, w) == [F EXCEPT ![f] = PartialContainer(o, w)]

(* What a failing SaveDataFile leaves at the file's path.                  *)
SaveFailResult(F, f, o, w) == F

(* SaveDataFile fails: writeFile returns an error (the temporary file      *)
(* could not be created or written), or os.Rename does.                    *)
SaveFail(f) ==
  /\ pc = "save"
  /\ f \in files
  /\ st[f] \in {"todo", "tmp"}
  /\ file' = SaveFailResult(file, f, obj[f], ntx)
  /\ st' = [st EXCEPT ![f] = "err"]
  /\ errorList' = Append(errorList, WriteErr(f))
  /\ UNCHANGED <<bck, pend, pendFiles, lock, masterKey, pc, ntx, files, obj,
                 called, committed, commit, errpCaller, errp, callerErr,
                 backup, recList, histVars>>
  /\ UNCHANGED <<lockVars, saveVars, restVars>>

(* A closure that wrapped the last write error received.                   *)
SaveErrorLast(list) == Wrap("s.SaveDataFile", Reverse(list))

(* The error the closure reports for failed writes.                        *)
SaveError(list) == Wrap("s.SaveDataFile", list)

(* A closure that did not restore the backup after a failed write.         *)
SaveJoinNoRestore ==
  /\ pc = "save"
  /\ Joined
  /\ IF errorList # <<>>
     THEN /\ pc' = "unlock"
          /\ errp' = IF errp = Nil THEN SaveError(errorList) ELSE errp
          /\ UNCHANGED committed
     ELSE /\ pc' = IF backup THEN "delete" ELSE "unlock"
          /\ committed' = ~backup
          /\ UNCHANGED errp
  /\ st' = AllTodo
  /\ UNCHANGED <<diskVars, ntx, files, obj, called, commit, errpCaller,
                 callerErr, errorList, backup, recList, histVars>>
  /\ UNCHANGED <<lockVars, saveVars, restVars>>

(* All the SaveDataFile goroutines have answered.                          *)
SaveJoin ==
  /\ pc = "save"
  /\ Joined
  /\ IF errorList # <<>>
     THEN /\ pc' = IF backup THEN "restore" ELSE "unlock"
          /\ errp' = IF ~backup /\ errp = Nil THEN SaveError(errorList) ELSE errp
          /\ UNCHANGED committed
     ELSE /\ pc' = IF backup THEN "delete" ELSE "unlock"
          /\ committed' = ~backup
          /\ UNCHANGED errp
  /\ st' = AllTodo
  /\ UNCHANGED <<diskVars, ntx, files, obj, called, commit, errpCaller,
                 callerErr, errorList, backup, recList, histVars>>
  /\ UNCHANGED <<lockVars, saveVars, restVars>>

----------------------------------------------------------------------------
(* backup.restore() and backup.delete(), called by the closure.            *)

RestoreRename(f) ==
  /\ pc = "restore"
  /\ f \in files
  /\ st[f] = "todo"
  /\ file' = RenameBackup(file, bck[ntx], f).file
  /\ bck' = [bck EXCEPT ![ntx] = RenameBackup(file, bck[ntx], f).bck]
  /\ st' = [st EXCEPT ![f] = "ok"]
  /\ UNCHANGED <<pend, pendFiles, lock, masterKey, pc, ntx, files, obj, called,
                 committed, commit, errpCaller, errp, callerErr, errorList,
                 backup, recList, histVars>>
  /\ UNCHANGED <<lockVars, saveVars, restVars>>

(* restore removes the pending record; the closure then sets *errp.        *)
RestoreFinish ==
  /\ pc = "restore"
  /\ Joined
  /\ pend' = [pend EXCEPT ![ntx] = "none"]
  /\ errp' = IF errp = Nil THEN SaveError(errorList) ELSE errp
  /\ pc' = "unlock"
  /\ UNCHANGED <<file, bck, pendFiles, lock, masterKey, ntx, files, obj, st,
                 called, committed, commit, errpCaller, callerErr, errorList,
                 backup, recList, histVars>>
  /\ UNCHANGED <<lockVars, saveVars, restVars>>

DeleteRemove(f) ==
  /\ pc = "delete"
  /\ f \in files
  /\ st[f] = "todo"
  /\ bck' = [bck EXCEPT ![ntx][f] = NoFile]
  /\ st' = [st EXCEPT ![f] = "ok"]
  /\ UNCHANGED <<file, pend, pendFiles, lock, masterKey, pc, ntx, files, obj,
                 called, committed, commit, errpCaller, errp, callerErr,
                 errorList, backup, recList, histVars>>
  /\ UNCHANGED <<lockVars, saveVars, restVars>>

(* delete removes the pending record (b.pending is still empty when        *)
(* backup.backup() deletes a failed backup).  After a failed backup the    *)
(* closure returns createBackup's error; after the writes it is committed. *)
DeleteFinish ==
  /\ pc = "delete"
  /\ Joined
  /\ pend' = [pend EXCEPT ![ntx] = IF backup THEN "none" ELSE @]
  /\ IF backup
     THEN /\ committed' = TRUE
          /\ pc' = "unlock"
          /\ UNCHANGED <<errp, ret, firstRet, callerErr>>
     ELSE /\ Return(Wrap("backup", errorList))
          /\ UNCHANGED committed
  /\ UNCHANGED <<file, bck, pendFiles, lock, masterKey, ntx, files, obj, st,
                 called, commit, errpCaller, errorList, backup, recList, calls,
                 pre, held, crashPc, recovered>>
  /\ UNCHANGED <<lockVars, saveVars, restVars>>

----------------------------------------------------------------------------
(* The end of the first call: UnlockMany, ErrRolledBack, return *errp.     *)

CommitUnlock ==
  /\ pc = "unlock"
  /\ LET r == UnlockMany(lock, SortedSeq(files))
         e1 == IF r.err # Nil /\ errp = Nil THEN r.err ELSE errp
         e2 == IF ~commit /\ e1 = Nil THEN ErrRolledBack ELSE e1
     IN /\ lock' = r.lock
        /\ held' = {f \in held : r.lock[f]}
        /\ Return(e2)
  /\ UNCHANGED <<file, bck, pend, pendFiles, masterKey, ntx, files, obj, st,
                 called, committed, commit, errpCaller, errorList, backup,
                 recList, calls, pre, crashPc, recovered>>
  /\ UNCHANGED <<lockVars, saveVars, restVars>>

----------------------------------------------------------------------------
(* A waiter in Lock (another goroutine or process using the directory)     *)
(* finds the lock file older than its deadline and removes it.  The lock   *)
(* files are read only by UnlockMany and by a later LockMany, so a removal *)
(* at any earlier moment is the same as one just before them.              *)
StaleReap(f) ==
  /\ pc \in {"idle", "readfail", "unlock", "rec_restore"}
  /\ lock[f]
  /\ lock' = [lock EXCEPT ![f] = FALSE]
  /\ held' = held \ {f}
  /\ UNCHANGED <<file, bck, pend, pendFiles, masterKey, pc, ntx, closureVars,
                 recList, ret, firstRet, calls, pre, crashPc, recovered>>
  /\ UNCHANGED <<lockVars, saveVars, restVars>>

(* The process dies.  What is on disk stays; files, obj, pre and commit    *)
(* are kept to tell what the dead transaction was doing.                   *)
Crash ==
  /\ pc \notin {"dead", "fatal", "idle", "returned", "openfailed"}
  /\ crashPc' = IF pc \in {"rec", "rec_restore"} THEN crashPc ELSE pc
  /\ pc' = "dead"
  /\ recovered' = FALSE
  /\ held' = {}
  /\ recList' = <<>>
  /\ st' = [f \in Files |-> "ok"]
  /\ called' = FALSE
  /\ committed' = FALSE
  /\ errpCaller' = FALSE
  /\ errp' = Nil
  /\ callerErr' = Nil
  /\ errorList' = <<>>
  /\ backup' = FALSE
  /\ ret' = Nil
  /\ firstRet' = Nil
  /\ calls' = 0
  /\ UNCHANGED <<diskVars, ntx, files, obj, commit, pre>>
  /\ UNCHANGED <<lockVars, saveVars, restVars>>

----------------------------------------------------------------------------
(* New(): rollbackPendingOps.                                              *)

(* filepath.Glob of pending: every entry of the directory, the temporary   *)
(* files of unfinished records included, in sorted order.                  *)
GlobPending == SortedSeq({t \in TxIds : pend[t] # "none"})

NewStorage ==
  /\ pc = "dead"
  /\ recList' = GlobPending
  /\ pc' = "rec"
  /\ UNCHANGED <<diskVars, ntx, closureVars, histVars>>
  /\ UNCHANGED <<lockVars, saveVars, restVars>>

(* ReadDataFile(rel, &b) succeeds on a complete record; a complete         *)
(* temporary file is read under another name, hence with another context,  *)
(* which an encrypted container does not survive.                          *)
RecordReadable(t) == pend[t] = "rec" \/ (pend[t] = "full" /\ ~masterKey)

RecRead ==
  /\ pc = "rec"
  /\ recList # <<>>
  /\ IF RecordReadable(Head(recList))
     THEN /\ pc' = "rec_restore"
          /\ st' = [f \in Files |->
                      IF f \in pendFiles[Head(recList)] THEN "todo" ELSE "ok"]
     ELSE /\ pc' = "fatal"
          /\ UNCHANGED st
  /\ UNCHANGED <<diskVars, ntx, files, obj, called, committed, commit,
                 errpCaller, errp, callerErr, errorList, backup, recList,
                 histVars>>
  /\ UNCHANGED <<lockVars, saveVars, restVars>>

RecRename(f) ==
  /\ pc = "rec_restore"
  /\ f \in pendFiles[Head(recList)]
  /\ st[f] = "todo"
  /\ file' = RenameBackup(file, bck[Head(recList)], f).file
  /\ bck' = [bck EXCEPT ![Head(recList)] =
                RenameBackup(file, bck[Head(recList)], f).bck]
  /\ st' = [st EXCEPT ![f] = "ok"]
  /\ UNCHANGED <<pend, pendFiles, lock, masterKey, pc, ntx, files, obj, called,
                 committed, commit, errpCaller, errp, callerErr, errorList,
                 backup, recList, histVars>>
  /\ UNCHANGED <<lockVars, saveVars, restVars>>

(* restore removes the record it was read from; then s.UnlockMany(b.Files) *)
(* whose error is ignored.                                                 *)
RecFinish ==
  /\ pc = "rec_restore"
  /\ \A f \in Files : st[f] = "ok"
  /\ pend' = [pend EXCEPT ![Head(recList)] = "none"]
  /\ lock' = UnlockMany(lock, SortedSeq(pendFiles[Head(recList)])).lock
  /\ recList' = Tail(recList)
  /\ pc' = "rec"
  /\ UNCHANGED <<file, bck, pendFiles, masterKey, ntx, closureVars, histVars>>
  /\ UNCHANGED <<lockVars, saveVars, restVars>>

(* New returns the Storage.                                                *)
RecDone ==
  /\ pc = "rec"
  /\ recList = <<>>
  /\ pc' = "idle"
  /\ recovered' = TRUE
  /\ UNCHANGED <<diskVars, ntx, closureVars, recList, ret, firstRet, calls,
                 pre, held, crashPc>>
  /\ UNCHANGED <<lockVars, saveVars, restVars>>

----------------------------------------------------------------------------
Next ==
  \/ \E fs \in SUBSET Files : OpenManyForUpdate(fs)
  \/ \E fs \in SUBSET Files, bad \in SUBSET Files : OpenManyReadFails(fs, bad)
  \/ OpenManyUnlock
  \/ OpenManyFailed
  \/ \E c \in BOOLEAN, hasPtr \in BOOLEAN, v \in {Nil, CallerError} :
       CommitFirstCall(c, hasPtr, v)
  \/ \E c \in BOOLEAN, hasPtr \in BOOLEAN : CommitAgain(c, hasPtr)
  \/ Finish
  \/ \E f \in Files : BackupCopy(f)
  \/ BackupJoin
  \/ PendingOpenTmp
  \/ PendingCloseTmp
  \/ PendingRename
  \/ PendingFail
  \/ \E f \in Files : SaveWriteTmp(f)
  \/ \E f \in Files : SaveRename(f)
  \/ \E f \in Files : SaveFail(f)
  \/ SaveJoin
  \/ \E f \in Files : RestoreRename(f)
  \/ RestoreFinish
  \/ \E f \in Files : DeleteRemove(f)
  \/ DeleteFinish
  \/ CommitUnlock
  \/ \E f \in Files : StaleReap(f)
  \/ Crash
  \/ NewStorage
  \/ RecRead
  \/ \E f \in Files : RecRename(f)
  \/ RecFinish
  \/ RecDone

Spec == Init /\ [][Next]_vars

----------------------------------------------------------------------------
(* New() of a second Storage on the directory while the first Storage runs *)
(* its transaction (RaceSpec).  The first Storage takes the steps above;   *)
(* here are the steps of rollbackPendingOps in the second.                 *)

GraceSeconds == 5

NewGlob ==
  /\ newPc = "idle"
  /\ m' = GlobPending
  /\ newPc' = "read"
  /\ UNCHANGED <<rel, newSt, recAge>>
  /\ UNCHANGED <<txVars, lockVars, saveVars, streamVars, dataVars, moreVars>>

(* ReadDataFile(rel, &b): an entry removed or renamed since Glob, or one   *)
(* that is not readable, makes rollbackPendingOps fail and New() exit.     *)
NewRead ==
  /\ newPc = "read"
  /\ m # <<>>
  /\ IF RecordReadable(Head(m))
     THEN /\ newPc' = "sleep"
          /\ rel' = IF pend[Head(m)] = "rec" THEN "rec" ELSE "tmp"
     ELSE /\ newPc' = "fatal"
          /\ UNCHANGED rel
  /\ UNCHANGED <<m, newSt, recAge>>
  /\ UNCHANGED <<txVars, lockVars, saveVars, streamVars, dataVars, moreVars>>

(* time.Sleep(time.Until(b.TS.Add(5 * time.Second))).  b.TS is older than  *)
(* the record, so the sleep is over at the latest when the record is five  *)
(* seconds old.                                                            *)
NewSleep ==
  /\ newPc = "sleep"
  /\ recAge[Head(m)] * RaceTickSeconds >= GraceSeconds
  /\ newPc' = "restore"
  /\ newSt' = [f \in Files |-> IF f \in pendFiles[Head(m)] THEN "todo" ELSE "ok"]
  /\ UNCHANGED <<m, rel, recAge>>
  /\ UNCHANGED <<txVars, lockVars, saveVars, streamVars, dataVars, moreVars>>

NewRename(f) ==
  /\ newPc = "restore"
  /\ newSt[f] = "todo"
  /\ file' = RenameBackup(file, bck[Head(m)], f).file
  /\ bck' = [bck EXCEPT ![Head(m)] = RenameBackup(file, bck[Head(m)], f).bck]
  /\ newSt' = [newSt EXCEPT ![f] = "ok"]
  /\ UNCHANGED <<newPc, m, rel, recAge>>
  /\ UNCHANGED <<pend, pendFiles, lock, masterKey, pc, ntx, closureVars,
                 recList, histVars>>
  /\ UNCHANGED <<lockVars, saveVars, streamVars, dataVars, moreVars>>

(* restore removes the entry under the name it was read from, then         *)
(* s.UnlockMany(b.Files).                                                  *)
NewFinish ==
  /\ newPc = "restore"
  /\ \A f \in Files : newSt[f] = "ok"
  /\ LET t == Head(m)
         there == \/ rel = "rec" /\ pend[t] = "rec"
                  \/ rel = "tmp" /\ pend[t] = "full"
         r == UnlockMany(lock, SortedSeq(pendFiles[t]))
     IN /\ pend' = IF there THEN [pend EXCEPT ![t] = "none"] ELSE pend
        /\ lock' = r.lock
        /\ held' = {f \in held : r.lock[f]}
  /\ m' = Tail(m)
  /\ rel' = "none"
  /\ newPc' = "read"
  /\ UNCHANGED <<newSt, recAge>>
  /\ UNCHANGED <<file, bck, pendFiles, masterKey, pc, ntx, closureVars,
                 recList, ret, firstRet, calls, pre, crashPc, recovered>>
  /\ UNCHANGED <<lockVars, saveVars, streamVars, dataVars, moreVars>>

NewDone ==
  /\ newPc = "read"
  /\ m = <<>>
  /\ newPc' = "done"
  /\ UNCHANGED <<m, rel, newSt, recAge>>
  /\ UNCHANGED <<txVars, lockVars, saveVars, streamVars, dataVars, moreVars>>

(* RaceTickSeconds pass.                                                   *)
RaceTick ==
  /\ \E t \in TxIds : pend[t] # "none" /\ recAge[t] < MaxRaceTicks
  /\ recAge' = [t \in TxIds |->
                  IF pend[t] # "none" \/ recAge[t] > 0
                  THEN Min({recAge[t] + 1, MaxRaceTicks}) ELSE 0]
  /\ UNCHANGED <<newPc, m, rel, newSt>>
  /\ UNCHANGED <<txVars, lockVars, saveVars, streamVars, dataVars, moreVars>>

RaceNext ==
  \/ \E fs \in SUBSET Files : OpenManyForUpdate(fs)
  \/ \E c \in BOOLEAN, hasPtr \in BOOLEAN, v \in {Nil, CallerError} :
       CommitFirstCall(c, hasPtr, v)
  \/ \E c \in BOOLEAN, hasPtr \in BOOLEAN : CommitAgain(c, hasPtr)
  \/ Finish
  \/ \E f \in Files : BackupCopy(f)
  \/ BackupJoin
  \/ PendingOpenTmp
  \/ PendingCloseTmp
  \/ PendingRename
  \/ PendingFail
  \/ \E f \in Files : SaveWriteTmp(f)
  \/ \E f \in Files : SaveRename(f)
  \/ \E f \in Files : SaveFail(f)
  \/ SaveJoin
  \/ \E f \in Files : RestoreRename(f)
  \/ RestoreFinish
  \/ \E f \in Files : DeleteRemove(f)
  \/ DeleteFinish
  \/ CommitUnlock
  \/ NewGlob
  \/ NewRead
  \/ NewSleep
  \/ \E f \in Files : NewRename(f)
  \/ NewFinish
  \/ NewDone
  \/ RaceTick

RaceSpec == Init /\ [][RaceNext]_vars

----------------------------------------------------------------------------
(* The lock manager with several callers.  Time passes in ticks of         *)
(* TickSeconds; a lock file's age is counted in ticks since it was         *)
(* created.                                                                *)

StaleSeconds == 600
StaleJitter == 60

(* deadline := 600 + rand % 60 seconds: the two ends of the range.         *)
Deadlines == {StaleSeconds, StaleSeconds + StaleJitter - 1}

(* The lists of names a caller may pass: any names in any order, each      *)
(* name once.                                                              *)
Lists ==
  {l \in UNION {[1..n -> Files] : n \in 1..NumFiles} :
     \A i, j \in DOMAIN l : i # j => l[i] # l[j]}

(* The name of the Lock or Unlock under way.                               *)
Cur(p) == sorted[p][idx[p]]

(* A stale check that took the deadline in nanoseconds would find every    *)
(* A deadline that no age exceeds.                                         *)
IsStaleNever(age, d) == FALSE

(* lock file older than it.                                                *)
IsStaleNanos(age, d) == TRUE

(* time.Since(fi.ModTime()) > deadline                                     *)
IsStale(age, d) == age * TickSeconds > d

(* An OpenFile without O_EXCL never reports that the lock file exists.     *)
ErrExistNever(age) == FALSE

(* os.OpenFile(lockf, O_WRONLY|O_CREATE|O_EXCL|O_SYNC) fails with EEXIST.  *)
ErrExist(age) == age # -1

(* A LockMany that took the locks in the caller's order.                   *)
LockOrderAsGiven(list) == list

(* LockMany: sorted := copy of filenames; sort.Strings(sorted)             *)
LockOrder(list) == SortStrings(list)

StartLockMany(p, list, u) ==
  /\ lpc[p] = "idle"
  /\ ops < MaxOps
  /\ ops' = ops + 1
  /\ sorted' = [sorted EXCEPT ![p] = LockOrder(list)]
  /\ idx' = [idx EXCEPT ![p] = 1]
  /\ update' = [update EXCEPT ![p] = u]
  /\ lpc' = [lpc EXCEPT ![p] = "try"]
  /\ UNCHANGED <<lockAge, deadline, rd, data, commits, holds, everStale>>

(* A caller calls LockMany(list).                                          *)
LockManyCall(p, list) ==
  /\ StartLockMany(p, list, FALSE)
  /\ UNCHANGED <<txVars, saveVars, restVars>>

(* The file name the callers of LockSpec contend for.                      *)
Foo == Min(Files)

(* A caller calls Lock(fn), which is what LockMany of one name does.       *)
LockCall(p) ==
  /\ StartLockMany(p, <<Foo>>, FALSE)
  /\ UNCHANGED <<txVars, saveVars, restVars>>

(* A caller calls OpenForUpdate(fn, &obj): OpenManyForUpdate of one file.  *)
OpenForUpdateCall(p) ==
  /\ StartLockMany(p, <<Foo>>, TRUE)
  /\ UNCHANGED <<txVars, saveVars, restVars>>

(* Lock: the OpenFile of one turn of the loop.  When the file could be     *)
(* created Lock returns and LockMany goes on with the next name.           *)
LockCreate(p) ==
  /\ lpc[p] = "try"
  /\ IF ErrExist(lockAge[Cur(p)])
     THEN /\ lpc' = [lpc EXCEPT ![p] = "stat"]
          /\ \E d \in Deadlines :
               deadline' = [deadline EXCEPT ![p] = IF @ = 0 THEN d ELSE @]
          /\ UNCHANGED <<lockAge, holds, idx>>
     ELSE /\ lockAge' = [lockAge EXCEPT ![Cur(p)] = 0]
          /\ holds' = [holds EXCEPT ![p] = @ \cup {Cur(p)}]
          /\ deadline' = [deadline EXCEPT ![p] = 0]
          /\ IF idx[p] < Len(sorted[p])
             THEN /\ idx' = [idx EXCEPT ![p] = @ + 1]
                  /\ UNCHANGED lpc
             ELSE /\ lpc' = [lpc EXCEPT ![p] =
                               IF update[p] THEN "read" ELSE "locked"]
                  /\ UNCHANGED idx
  /\ UNCHANGED <<sorted, update, rd, data, commits, everStale, ops>>
  /\ UNCHANGED <<txVars, saveVars, restVars>>

(* tryToRemoveStaleLock: os.Stat and the comparison with the deadline.     *)
LockStat(p) ==
  /\ lpc[p] = "stat"
  /\ lpc' = [lpc EXCEPT ![p] =
               IF lockAge[Cur(p)] # -1 /\ IsStale(lockAge[Cur(p)], deadline[p])
               THEN "remove" ELSE "try"]
  /\ UNCHANGED <<lockAge, sorted, idx, deadline, update, rd, data, commits,
                 holds, everStale, ops>>
  /\ UNCHANGED <<txVars, saveVars, restVars>>

(* tryToRemoveStaleLock: os.Remove(lockf) of whatever is at the path now;  *)
(* then Lock sleeps and tries again.                                       *)
LockRemoveStale(p) ==
  /\ lpc[p] = "remove"
  /\ lockAge' = [lockAge EXCEPT ![Cur(p)] = -1]
  /\ lpc' = [lpc EXCEPT ![p] = "try"]
  /\ UNCHANGED <<sorted, idx, deadline, update, rd, data, commits, holds,
                 everStale, ops>>
  /\ UNCHANGED <<txVars, saveVars, restVars>>

(* Time passes: every lock file gets one tick older.                       *)
Tick ==
  /\ \E f \in Files : lockAge[f] \in 0..(MaxTicks - 1)
  /\ lockAge' = [f \in Files |->
                   IF lockAge[f] = -1 THEN -1
                   ELSE Min({lockAge[f] + 1, MaxTicks})]
  /\ everStale' = (everStale \/ \E f \in Files :
                     lockAge'[f] * TickSeconds >= StaleSeconds)
  /\ UNCHANGED <<lpc, sorted, idx, deadline, update, rd, data, commits, holds,
                 ops>>
  /\ UNCHANGED <<txVars, saveVars, restVars>>

(* OpenManyForUpdate: ReadDataFile once the lock is held.                  *)
ReadData(p) ==
  /\ lpc[p] = "read"
  /\ rd' = [rd EXCEPT ![p] = data[Cur(p)]]
  /\ lpc' = [lpc EXCEPT ![p] = "opened"]
  /\ UNCHANGED <<lockAge, sorted, idx, deadline, update, data, commits, holds,
                 everStale, ops>>
  /\ UNCHANGED <<txVars, saveVars, restVars>>

(* The caller modifies the object (adds one) and calls commit(true, nil):  *)
(* SaveDataFile; UnlockMany follows.                                       *)
CommitSave(p) ==
  /\ lpc[p] = "opened"
  /\ data' = [data EXCEPT ![Cur(p)] = rd[p] + 1]
  /\ commits' = [commits EXCEPT ![Cur(p)] = @ + 1]
  /\ lpc' = [lpc EXCEPT ![p] = "unlock"]
  /\ UNCHANGED <<lockAge, sorted, idx, deadline, update, rd, holds, everStale,
                 ops>>
  /\ UNCHANGED <<txVars, saveVars, restVars>>

(* UnlockMany: one Unlock, from the last sorted name to the first; the     *)
(* first os.Remove that fails ends the call and the caller is gone.        *)
Unlock(p) ==
  /\ lpc[p] \in {"locked", "unlock"}
  /\ lockAge' = [lockAge EXCEPT ![Cur(p)] = -1]
  /\ IF lockAge[Cur(p)] # -1 /\ idx[p] > 1
     THEN /\ idx' = [idx EXCEPT ![p] = @ - 1]
          /\ lpc' = [lpc EXCEPT ![p] = "unlock"]
          /\ holds' = [holds EXCEPT ![p] = @ \ {Cur(p)}]
          /\ UNCHANGED <<sorted, update, rd>>
     ELSE /\ idx' = [idx EXCEPT ![p] = 0]
          /\ lpc' = [lpc EXCEPT ![p] = "idle"]
          /\ holds' = [holds EXCEPT ![p] = {}]
          /\ sorted' = [sorted EXCEPT ![p] = <<>>]
          /\ update' = [update EXCEPT ![p] = FALSE]
          /\ rd' = [rd EXCEPT ![p] = 0]
  /\ UNCHANGED <<deadline, data, commits, everStale, ops>>
  /\ UNCHANGED <<txVars, saveVars, restVars>>

LockInit ==
  /\ TxQuiet
  /\ masterKey = FALSE
  /\ LockQuiet
  /\ SaveQuiet
  /\ RestQuiet

LockNext ==
  \/ \E p \in Procs : LockCall(p)
  \/ \E p \in Procs : OpenForUpdateCall(p)
  \/ \E p \in Procs : LockCreate(p)
  \/ \E p \in Procs : LockStat(p)
  \/ \E p \in Procs : LockRemoveStale(p)
  \/ Tick
  \/ \E p \in Procs : ReadData(p)
  \/ \E p \in Procs : CommitSave(p)
  \/ \E p \in Procs : Unlock(p)

LockSpec == LockInit /\ [][LockNext]_vars

(* Callers of LockMany with lists of names, while no lock file is stale.   *)
ManyNext ==
  \/ \E p \in Procs, list \in Lists : LockManyCall(p, list)
  \/ \E p \in Procs : LockCreate(p)
  \/ \E p \in Procs : LockStat(p)
  \/ \E p \in Procs : Unlock(p)

ManySpec == LockInit /\ [][ManyNext]_vars

(* One caller of LockMany and UnlockMany with any list of names, names     *)
(* that occur more than once included (DupSpec); nobody else takes locks.  *)
DupLists == UNION {[1..n -> Files] : n \in 1..(NumFiles + 1)}

Caller == Min(Procs)

DupNext ==
  \/ \E list \in DupLists : LockManyCall(Caller, list)
  \/ LockCreate(Caller)
  \/ LockStat(Caller)
  \/ LockRemoveStale(Caller)
  \/ Tick
  \/ Unlock(Caller)

DupSpec == LockInit /\ [][DupNext]_vars

(* LockMany when a Lock fails (FailSpec).  Lock returns an error when      *)
(* createParentIfNotExist or os.OpenFile fails otherwise than with EEXIST, *)
(* and when f.Close() fails; LockMany then calls UnlockMany(locks) with    *)
(* the names locked so far, ignores its result and returns the error.      *)
(* Here holds[p] is the lock files the call created and has not removed.   *)

(* LockMany after the failed Lock of the name at idx: UnlockMany(locks),   *)
(* locks being the names before it.                                        *)
LockFailed(p) ==
  /\ idx' = [idx EXCEPT ![p] = @ - 1]
  /\ lpc' = [lpc EXCEPT ![p] = IF idx[p] = 1 THEN "failed" ELSE "rollback"]

(* createParentIfNotExist or os.OpenFile fails: no lock file is created.   *)
LockOpenFails(p) ==
  /\ lpc[p] = "try"
  /\ LockFailed(p)
  /\ deadline' = [deadline EXCEPT ![p] = 0]
  /\ UNCHANGED <<lockAge, sorted, update, rd, data, commits, holds,
                 everStale, ops>>
  /\ UNCHANGED <<txVars, saveVars, restVars>>

(* os.OpenFile creates the lock file and f.Close() fails.                  *)
LockCloseFails(p) ==
  /\ lpc[p] = "try"
  /\ ~ErrExist(lockAge[Cur(p)])
  /\ lockAge' = [lockAge EXCEPT ![Cur(p)] = 0]
  /\ holds' = [holds EXCEPT ![p] = @ \cup {Cur(p)}]
  /\ LockFailed(p)
  /\ deadline' = [deadline EXCEPT ![p] = 0]
  /\ UNCHANGED <<sorted, update, rd, data, commits, everStale, ops>>
  /\ UNCHANGED <<txVars, saveVars, restVars>>

(* One Unlock of UnlockMany(locks), from the last name locked to the       *)
(* first; the first os.Remove that fails ends it.                          *)
LockManyRollback(p) ==
  /\ lpc[p] = "rollback"
  /\ lockAge' = [lockAge EXCEPT ![Cur(p)] = -1]
  /\ IF lockAge[Cur(p)] # -1
     THEN /\ holds' = [holds EXCEPT ![p] = @ \ {Cur(p)}]
          /\ idx' = [idx EXCEPT ![p] = @ - 1]
          /\ lpc' = [lpc EXCEPT ![p] =
                       IF idx[p] = 1 THEN "failed" ELSE "rollback"]
     ELSE /\ lpc' = [lpc EXCEPT ![p] = "failed"]
          /\ UNCHANGED <<holds, idx>>
  /\ UNCHANGED <<sorted, deadline, update, rd, data, commits, everStale, ops>>
  /\ UNCHANGED <<txVars, saveVars, restVars>>

(* LockMany has returned the error; the caller goes on without the locks.  *)
LockManyFailed(p) ==
  /\ lpc[p] = "failed"
  /\ lpc' = [lpc EXCEPT ![p] = "idle"]
  /\ idx' = [idx EXCEPT ![p] = 0]
  /\ holds' = [holds EXCEPT ![p] = {}]
  /\ sorted' = [sorted EXCEPT ![p] = <<>>]
  /\ UNCHANGED <<lockAge, deadline, update, rd, data, commits, everStale, ops>>
  /\ UNCHANGED <<txVars, saveVars, restVars>>

FailNext ==
  \/ \E p \in Procs, list \in Lists : LockManyCall(p, list)
  \/ \E p \in Procs : LockCreate(p)
  \/ \E p \in Procs : LockStat(p)
  \/ \E p \in Procs : Unlock(p)
  \/ \E p \in Procs : LockOpenFails(p)
  \/ \E p \in Procs : LockCloseFails(p)
  \/ \E p \in Procs : LockManyRollback(p)
  \/ \E p \in Procs : LockManyFailed(p)

FailSpec == LockInit /\ [][FailNext]_vars

(* A holder that dies with its lock, and one caller of Lock (StaleSpec).   *)
Holder == Min(Procs)
Waiter == Max(Procs)

(* The process of the holder dies: it never calls Unlock.                  *)
Die(p) ==
  /\ lpc[p] = "locked"
  /\ lpc' = [lpc EXCEPT ![p] = "dead"]
  /\ UNCHANGED <<lockAge, sorted, idx, deadline, update, rd, data, commits,
                 holds, everStale, ops>>
  /\ UNCHANGED <<txVars, saveVars, restVars>>

StaleNext ==
  \/ \E p \in {Holder, Waiter} : LockCall(p)
  \/ \E p \in {Holder, Waiter} : LockCreate(p)
  \/ \E p \in {Holder, Waiter} : LockStat(p)
  \/ \E p \in {Holder, Waiter} : LockRemoveStale(p)
  \/ Tick
  \/ Unlock(Waiter)
  \/ Die(Holder)

(* The loop of Lock goes on (it sleeps 100 to 200 ms between two turns)    *)
(* and time passes.                                                        *)
StaleFair ==
  /\ WF_vars(Tick)
  /\ WF_vars(LockCreate(Waiter))
  /\ WF_vars(LockStat(Waiter))
  /\ WF_vars(LockRemoveStale(Waiter))

StaleSpec == LockInit /\ [][StaleNext]_vars /\ StaleFair

----------------------------------------------------------------------------
(* SaveDataFile on an existing file, and ReadDataFile by a reader that     *)
(* holds no lock.                                                          *)

(* A writeFile that opened the file's own path for writing would write     *)
(* into the inode readers have open.                                       *)
OpenInPlace(I, path) ==
  [inode |-> [I EXCEPT ![path] = PartialContainer(Len(I), Len(I))],
   ino |-> path]

(* openWriteStream on <file>.tmp-<now> with O_CREATE|O_EXCL: a new inode,  *)
(* holding the header.                                                     *)
OpenTmp(I, path) ==
  [inode |-> Append(I, PartialContainer(Len(I), Len(I))),
   ino |-> Len(I) + 1]

SaveDataFileCall ==
  /\ wpc = "idle"
  /\ saves < MaxSaves
  /\ saves' = saves + 1
  /\ atCall' = inode[fpath]
  /\ wpc' = "call"
  /\ wret' = "none"
  /\ UNCHANGED <<inode, fpath, wtmp, rpc, rfd, rgot, atOpen>>
  /\ UNCHANGED <<txVars, lockVars, restVars>>

WriteOpenTmp ==
  /\ wpc = "call"
  /\ inode' = OpenTmp(inode, fpath).inode
  /\ wtmp' = OpenTmp(inode, fpath).ino
  /\ wpc' = "tmp"
  /\ UNCHANGED <<fpath, wret, rpc, rfd, rgot, atOpen, atCall, saves>>
  /\ UNCHANGED <<txVars, lockVars, restVars>>

(* writeFile encodes the object and closes the stream.                     *)
WriteCloseTmp ==
  /\ wpc = "tmp"
  /\ inode' = [inode EXCEPT ![wtmp] = Container(@.obj, @.wid)]
  /\ wpc' = "full"
  /\ UNCHANGED <<fpath, wtmp, wret, rpc, rfd, rgot, atOpen, atCall, saves>>
  /\ UNCHANGED <<txVars, lockVars, restVars>>

(* os.Rename(tmp, file): the path names the new inode.                     *)
Rename ==
  /\ wpc = "full"
  /\ fpath' = wtmp
  /\ wtmp' = 0
  /\ wpc' = "idle"
  /\ wret' = "nil"
  /\ UNCHANGED <<inode, rpc, rfd, rgot, atOpen, atCall, saves>>
  /\ UNCHANGED <<txVars, lockVars, restVars>>

(* SaveDataFile returns an error: openWriteStream, the encoder, Close or   *)
(* os.Rename failed.  What was written stays where it was written.         *)
SaveDataFileFail ==
  /\ wpc \in {"call", "tmp", "full"}
  /\ wtmp' = 0
  /\ wpc' = "idle"
  /\ wret' = "err"
  /\ UNCHANGED <<inode, fpath, rpc, rfd, rgot, atOpen, atCall, saves>>
  /\ UNCHANGED <<txVars, lockVars, restVars>>

(* ReadDataFile: os.Open(file).                                            *)
ReadOpen ==
  /\ rpc = "idle"
  /\ rfd' = fpath
  /\ atOpen' = inode[fpath]
  /\ rgot' = NoFile
  /\ rpc' = "open"
  /\ UNCHANGED <<inode, fpath, wpc, wtmp, wret, atCall, saves>>
  /\ UNCHANGED <<txVars, lockVars, restVars>>

(* ReadDataFile: io.ReadFull of the header and the check of the magic.     *)
ReadHeader ==
  /\ rpc = "open"
  /\ rpc' = "hdr"
  /\ UNCHANGED <<inode, fpath, wpc, wtmp, wret, rfd, rgot, atOpen, atCall,
                 saves>>
  /\ UNCHANGED <<txVars, lockVars, restVars>>

(* ReadDataFile: the rest of the open file is read and decoded.            *)
ReadDecode ==
  /\ rpc = "hdr"
  /\ rgot' = inode[rfd]
  /\ rfd' = 0
  /\ rpc' = "idle"
  /\ UNCHANGED <<inode, fpath, wpc, wtmp, wret, atOpen, atCall, saves>>
  /\ UNCHANGED <<txVars, lockVars, restVars>>

SaveInit ==
  /\ TxQuiet
  /\ masterKey = FALSE
  /\ LockQuiet
  /\ SaveQuiet
  /\ RestQuiet

SaveNext ==
  \/ SaveDataFileCall
  \/ WriteOpenTmp
  \/ WriteCloseTmp
  \/ Rename
  \/ SaveDataFileFail
  \/ ReadOpen
  \/ ReadHeader
  \/ ReadDecode

SaveSpec == SaveInit /\ [][SaveNext]_vars

----------------------------------------------------------------------------
(* The encrypted stream (StreamSpec): AESStreamWriter and AESStreamReader. *)
(* A chunk is what gcm.Seal made of a piece of plaintext under the nonce   *)
(* of a counter; gcm.Open gives the piece back when the chunk is intact    *)
(* and the nonce is the one it was sealed with.                            *)

Overhead == 16

(* gcmNonce(ctx, counter), the context being the same all along.           *)
Seal(counter, b) == [ctr |-> counter, data |-> b, ok |-> TRUE]
Open(counter, c) == c.ok /\ c.ctr = counter

(* A reader that counts the chunks from zero.                              *)
ChunkCounterFromZero(o) == o \div ChunkSize

(* The counter of the chunk that holds plaintext offset o.                 *)
ChunkCounter(o) == (o \div ChunkSize) + 1

Drop(s, k) == SubSeq(s, k + 1, Len(s))

(* A writer whose writeChunk did not advance the counter.                  *)
RECURSIVE WriteChunksSameCounter(_, _, _)
WriteChunksSameCounter(c, b, o) ==
  IF Len(b) >= ChunkSize
  THEN WriteChunksSameCounter(c, Drop(b, ChunkSize),
                              Append(o, Seal(c + 1, SubSeq(b, 1, ChunkSize))))
  ELSE [c |-> c, buf |-> b, out |-> o]

(* AESStreamWriter.Write: the loop that writes the full chunks of w.buf.   *)
RECURSIVE WriteChunks(_, _, _)
WriteChunks(c, b, o) ==
  IF Len(b) >= ChunkSize
  THEN WriteChunks(c + 1, Drop(b, ChunkSize),
                   Append(o, Seal(c + 1, SubSeq(b, 1, ChunkSize))))
  ELSE [c |-> c, buf |-> b, out |-> o]

(* w.Write(b) with the next k bytes of the plaintext.                      *)
StreamWrite(k) ==
  /\ spc = "write"
  /\ k \in 1..rest
  /\ LET b == [i \in 1..k |-> (plen - rest) + i - 1]
         w == WriteChunks(wc, wbuf \o b, out)
     IN /\ wc' = w.c
        /\ wbuf' = w.buf
        /\ out' = w.out
  /\ rest' = rest - k
  /\ split' = (split \/ rest < plen)
  /\ UNCHANGED <<plen, spc, corrupt, fpos, off, buf, pos, res, lastSeek, hist,
                 failed>>
  /\ UNCHANGED <<txVars, lockVars, saveVars, raceVars, dataVars, moreVars>>

(* w.Close(): what is left in w.buf is the last chunk.                     *)
StreamClose ==
  /\ spc = "write"
  /\ rest = 0
  /\ IF Len(wbuf) > 0
     THEN /\ out' = Append(out, Seal(wc + 1, wbuf))
          /\ wc' = wc + 1
          /\ wbuf' = <<>>
     ELSE UNCHANGED <<out, wc, wbuf>>
  /\ spc' = "closed"
  /\ UNCHANGED <<plen, rest, split, corrupt, fpos, off, buf, pos, res,
                 lastSeek, hist, failed>>
  /\ UNCHANGED <<txVars, lockVars, saveVars, raceVars, dataVars, moreVars>>

(* A byte of the ciphertext or of the tag of chunk i is changed.           *)
Corrupt(i) ==
  /\ spc = "closed"
  /\ corrupt = 0
  /\ i \in 1..Len(out)
  /\ out' = [out EXCEPT ![i].ok = FALSE]
  /\ corrupt' = i
  /\ UNCHANGED <<plen, spc, rest, split, wbuf, wc, fpos, off, buf, pos, res,
                 lastSeek, hist, failed>>
  /\ UNCHANGED <<txVars, lockVars, saveVars, raceVars, dataVars, moreVars>>

(* StartReader on the written stream, from its first byte.                 *)
StartReader ==
  /\ spc = "closed"
  /\ spc' = "read"
  /\ UNCHANGED <<plen, rest, split, wbuf, wc, out, corrupt, fpos, off, buf, pos,
                 res, lastSeek, hist, failed>>
  /\ UNCHANGED <<txVars, lockVars, saveVars, raceVars, dataVars, moreVars>>

(* readChunk: io.ReadFull of one chunk at the position of the input, then  *)
(* gcm.Open with the nonce of r.off.  Only the last chunk is short, and    *)
(* io.ReadFull then reports the end of the input.                          *)
ReadChunk(s) ==
  IF s.fpos < Len(out)
  THEN LET c == out[s.fpos + 1]
       IN IF Open(ChunkCounter(s.off), c)
          THEN [s EXCEPT !.fpos = @ + 1, !.buf = @ \o c.data, !.err = "nil"]
          ELSE [s EXCEPT !.fpos = @ + 1, !.err = "ErrDecryptFailed"]
  ELSE [s EXCEPT !.err = IF Len(s.buf) > 0 THEN "nil" ELSE "EOF"]

(* The loop of Read(b) with len(b) = want.                                 *)
RECURSIVE ReadLoop(_, _)
ReadLoop(s, want) ==
  LET nn == Min({want - s.n, Len(s.buf)})
      t == [s EXCEPT !.data = @ \o SubSeq(s.buf, 1, nn),
                     !.buf = Drop(@, nn),
                     !.off = @ + nn,
                     !.n = @ + nn]
  IN IF t.n = want THEN t
     ELSE LET u == ReadChunk(t)
          IN IF u.err = "nil" THEN ReadLoop(u, want) ELSE u

Reader == [fpos |-> fpos, off |-> off, buf |-> buf, n |-> 0, data |-> <<>>,
           err |-> "nil"]

(* r.Read(b): an error is returned only when no byte was copied.           *)
StreamRead(want) ==
  /\ spc = "read"
  /\ LET r == ReadLoop(Reader, want)
         err == IF r.n > 0 THEN "nil" ELSE r.err
     IN /\ fpos' = r.fpos
        /\ off' = r.off
        /\ buf' = r.buf
        /\ res' = [op |-> "read", arg |-> 0, n |-> r.n, err |-> err,
                   data |-> r.data]
        /\ pos' = pos + r.n
        /\ failed' = (failed \/ err = "ErrDecryptFailed")
  /\ UNCHANGED <<plen, spc, rest, split, wbuf, wc, out, corrupt, lastSeek,
                 hist>>
  /\ UNCHANGED <<txVars, lockVars, saveVars, raceVars, dataVars, moreVars>>

(* The size of the input, and the size of the plaintext Seek works out     *)
(* from it for io.SeekEnd (-1: "invalid last chunk").                      *)
RECURSIVE Size(_)
Size(o) == IF o = <<>> THEN 0 ELSE Len(Head(o).data) + Overhead + Size(Tail(o))

DecSize ==
  LET nChunks == Size(out) \div (ChunkSize + Overhead)
      last == Size(out) % (ChunkSize + Overhead)
      lastChunkSize == IF last > 0 THEN last - Overhead ELSE last
  IN IF lastChunkSize < 0 THEN -1 ELSE nChunks * ChunkSize + lastChunkSize

(* Seek once newOffset is known; at is the position of the input then.     *)
SeekTo(newOffset, at) ==
  LET s == [Reader EXCEPT !.fpos = at]
      d == newOffset - off
  IN IF newOffset < 0 THEN [s EXCEPT !.err = "ErrInvalid"]
     ELSE IF newOffset = off THEN [s EXCEPT !.n = off]
     ELSE IF d > 0 /\ d < Len(buf)
     THEN [s EXCEPT !.buf = Drop(@, d), !.off = newOffset, !.n = newOffset]
     ELSE LET u == ReadChunk([s EXCEPT !.fpos = newOffset \div ChunkSize,
                                       !.off = newOffset,
                                       !.buf = <<>>])
              chunkOffset == newOffset % ChunkSize
          IN IF u.err \notin {"nil", "EOF"} THEN u
             ELSE [u EXCEPT !.buf = IF chunkOffset < Len(@)
                                    THEN Drop(@, chunkOffset) ELSE <<>>,
                            !.n = newOffset,
                            !.err = "nil"]

(* The offset the caller asks for, by the meaning of whence.               *)
Target(offset, whence) ==
  CASE whence = "start" -> offset
    [] whence = "current" -> pos + offset
    [] whence = "end" -> plen + offset

(* r.Seek(offset, whence).  io.SeekEnd first seeks the input to its end    *)
(* to learn its size.                                                      *)
StreamSeek(offset, whence) ==
  /\ spc = "read"
  /\ Target(offset, whence) \in -1..(MaxPlain + 1)
  /\ LET r == CASE whence = "start" -> SeekTo(offset, fpos)
                [] whence = "current" -> SeekTo(off + offset, fpos)
                [] whence = "end" ->
                     IF DecSize < 0
                     THEN [Reader EXCEPT !.fpos = Len(out),
                                         !.err = "invalid last chunk"]
                     ELSE SeekTo(DecSize + offset, Len(out))
         q == Target(offset, whence)
     IN /\ fpos' = r.fpos
        /\ off' = r.off
        /\ buf' = r.buf
        /\ res' = [op |-> "seek", arg |-> q, n |-> r.n, err |-> r.err,
                   data |-> <<>>]
        /\ pos' = IF r.err = "nil" THEN q ELSE pos
        /\ lastSeek' = IF q \in 0..plen THEN whence ELSE "outside"
  /\ hist' = IF whence = "end" \/ hist = "seekend" THEN "seekend" ELSE "seeks"
  /\ UNCHANGED <<plen, spc, rest, split, wbuf, wc, out, corrupt, failed>>
  /\ UNCHANGED <<txVars, lockVars, saveVars, raceVars, dataVars, moreVars>>

StreamInit ==
  /\ TxQuiet
  /\ masterKey = FALSE
  /\ LockQuiet
  /\ SaveQuiet
  /\ RaceQuiet
  /\ DataQuiet
  /\ MoreQuiet
  /\ plen \in 0..MaxPlain
  /\ spc = "write"
  /\ rest = plen
  /\ split = FALSE
  /\ wbuf = <<>>
  /\ wc = 0
  /\ out = <<>>
  /\ corrupt = 0
  /\ fpos = 0
  /\ off = 0
  /\ buf = <<>>
  /\ pos = 0
  /\ res = NoResult
  /\ lastSeek = "none"
  /\ hist = "reads"
  /\ failed = FALSE

(* A stream is written, perhaps corrupted, and read from its start to its *)
(* end.                                                                    *)
StreamNext ==
  \/ \E k \in 1..MaxPlain : StreamWrite(k)
  \/ StreamClose
  \/ \E i \in 1..MaxPlain : Corrupt(i)
  \/ StartReader
  \/ \E want \in 1..MaxBuf : StreamRead(want)

StreamSpec == StreamInit /\ [][StreamNext]_vars

(* A reader on a stream that was written in one Write and closed, and the  *)
(* calls of Read and Seek on it (SeekSpec).                                *)
Written(n) ==
  LET w == WriteChunks(0, [i \in 1..n |-> i - 1], <<>>)
  IN IF Len(w.buf) > 0 THEN Append(w.out, Seal(w.c + 1, w.buf)) ELSE w.out

SeekInit ==
  /\ TxQuiet
  /\ masterKey = FALSE
  /\ LockQuiet
  /\ SaveQuiet
  /\ RaceQuiet
  /\ DataQuiet
  /\ MoreQuiet
  /\ plen \in 0..MaxPlain
  /\ spc = "read"
  /\ rest = 0
  /\ split = FALSE
  /\ wbuf = <<>>
  /\ wc = Len(Written(plen))
  /\ out = Written(plen)
  /\ corrupt = 0
  /\ fpos = 0
  /\ off = 0
  /\ buf = <<>>
  /\ pos = 0
  /\ res = NoResult
  /\ lastSeek = "none"
  /\ hist = "reads"
  /\ failed = FALSE

SeekNext ==
  \/ \E want \in 1..MaxBuf : StreamRead(want)
  \/ \E offset \in -(MaxPlain + 1)..(MaxPlain + 1),
        whence \in {"start", "current", "end"} : StreamSeek(offset, whence)

SeekSpec == SeekInit /\ [][SeekNext]_vars

----------------------------------------------------------------------------
(* The container codec (DataSpec): SaveDataFile of an object, then         *)
(* ReadDataFile of the file into a destination of the same type.           *)

optJSONEncoded == 1
optGOBEncoded == 2
optBinaryEncoded == 3
optRawBytes == 4
optEncodingMask == 15
optEncrypted == 16
optCompressed == 32
optPadded == 64

(* flags & bit # 0 for a single bit, and flags & optEncodingMask.          *)
Has(flags, bit) == (flags \div bit) % 2 = 1
Encoding(flags) == flags % (optEncodingMask + 1)

(* The objects: a plain struct, a type with MarshalBinary and              *)
(* UnmarshalBinary, a type with MarshalBinary alone, and a *[]byte.        *)
Values == 1..MaxValue
Bytes == UNION {[1..n -> Values] : n \in 0..MaxBytes}
Objects ==
  [kind : {"struct", "marshaler", "marshalerOnly"}, val : Values]
    \cup [kind : {"bytes"}, val : Bytes]

IsBinaryMarshaler(o) == o.kind \in {"marshaler", "marshalerOnly"}
IsBinaryUnmarshaler(o) == o.kind = "marshaler"

(* The destinations ReadDataFile is given for an object: another object of *)
(* the type, a zero value or not.                                          *)
Zero(o) == [kind |-> o.kind, val |-> IF o.kind = "bytes" THEN <<>> ELSE 0]
Destinations(o) ==
  IF o.kind = "bytes" THEN [kind : {"bytes"}, val : Bytes] ELSE {Zero(o)}

(* writeFile: the flags of the file.                                       *)
Flags(o) ==
  (IF IsBinaryMarshaler(o) THEN optBinaryEncoded
   ELSE IF o.kind = "bytes" THEN optRawBytes
   ELSE IF useGOB THEN optGOBEncoded
   ELSE optJSONEncoded)
  + (IF masterKey THEN optEncrypted + optPadded ELSE 0)
  + (IF compress THEN optCompressed ELSE 0)

(* What the encoder of the flags writes: gob, json and MarshalBinary make  *)
(* one item that only their own decoder reads; raw bytes are written as    *)
(* they are.                                                               *)
Encode(enc, o) ==
  CASE enc = optGOBEncoded -> <<[codec |-> "gob", v |-> o.val]>>
    [] enc = optJSONEncoded -> <<[codec |-> "json", v |-> o.val]>>
    [] enc = optBinaryEncoded -> <<[codec |-> "binary", v |-> o.val]>>
    [] enc = optRawBytes -> o.val

Header(flags) == [magic |-> "KRIN", flags |-> flags]

(* AddPadding: the length, then so many bytes.                             *)
AddPadding(n) == <<[pad |-> n]>> \o [i \in 1..n |-> "x"]

(* A reader that takes the length for the padding itself.                  *)
SkipPaddingLengthOnly(r) ==
  IF r = <<>> \/ "pad" \notin DOMAIN Head(r)
  THEN [err |-> "padding", r |-> r]
  ELSE [err |-> "nil", r |-> Tail(r)]

(* SkipPadding: read the length, Seek so many bytes on.                    *)
SkipPadding(r) ==
  IF r = <<>> \/ "pad" \notin DOMAIN Head(r)
  THEN [err |-> "padding", r |-> r]
  ELSE [err |-> "nil", r |-> Drop(Tail(r), Head(r).pad)]

(* openWriteStream and writeFile: the container of object o written under  *)
(* context ctx with n bytes of padding.                                    *)
WriteFile(ctx, o, n) ==
  LET flags == Flags(o)
      content == Encode(Encoding(flags), o)
      gz == IF Has(flags, optCompressed) THEN <<[gzip |-> content]>>
            ELSE content
      w == <<Header(flags)>>
             \o (IF Has(flags, optPadded) THEN AddPadding(n) ELSE <<>>)
             \o gz
  IN IF Has(flags, optEncrypted)
     THEN [hdr |-> Header(flags), key |-> TRUE,
           body |-> <<[sealed |-> w, ctx |-> ctx]>>]
     ELSE [hdr |-> Header(flags), key |-> FALSE, body |-> gz]

NoData == [hdr |-> Header(0), key |-> FALSE, body |-> <<>>]

(* The decoder of the flags on what is left to read, into dest.            *)
Decode(enc, rc, dest) ==
  CASE enc \in {optGOBEncoded, optJSONEncoded} ->
         LET codec == IF enc = optGOBEncoded THEN "gob" ELSE "json"
         IN IF Len(rc) = 1 /\ "codec" \in DOMAIN rc[1] /\ rc[1].codec = codec
            THEN [err |-> "nil", obj |-> [dest EXCEPT !.val = rc[1].v]]
            ELSE [err |-> "decode", obj |-> dest]
    [] enc = optBinaryEncoded ->
         IF ~IsBinaryUnmarshaler(dest)
         THEN [err |-> "not a BinaryUnmarshaler", obj |-> dest]
         ELSE IF Len(rc) = 1 /\ "codec" \in DOMAIN rc[1]
                 /\ rc[1].codec = "binary"
         THEN [err |-> "nil", obj |-> [dest EXCEPT !.val = rc[1].v]]
         ELSE [err |-> "decode", obj |-> dest]
    [] enc = optRawBytes ->
         IF dest.kind # "bytes" THEN [err |-> "not *[]byte", obj |-> dest]
         ELSE [err |-> "nil", obj |-> [dest EXCEPT !.val = @ \o rc]]
    [] OTHER -> [err |-> "unexpected encoding", obj |-> dest]

(* ReadDataFile of container f under context ctx into dest.                *)
ReadFile(ctx, f, dest) ==
  LET flags == f.hdr.flags
      fail(e) == [err |-> e, obj |-> dest]
  IN IF f.hdr.magic # "KRIN" THEN fail("wrong file type")
     ELSE IF Has(flags, optEncrypted) /\ ~masterKey THEN fail("no master key")
     ELSE
       LET opened == ~Has(flags, optEncrypted)
                       \/ (f.key /\ Len(f.body) = 1
                           /\ "sealed" \in DOMAIN f.body[1]
                           /\ f.body[1].ctx = ctx)
           r == IF Has(flags, optEncrypted) THEN f.body[1].sealed ELSE f.body
       IN IF ~opened THEN fail("ErrDecryptFailed")
          ELSE IF Has(flags, optEncrypted) /\ (r = <<>> \/ Head(r) # f.hdr)
          THEN fail("wrong encrypted header")
          ELSE
            LET r1 == IF Has(flags, optEncrypted) THEN Tail(r) ELSE r
                sk == IF Has(flags, optEncrypted) /\ Has(flags, optPadded)
                      THEN SkipPadding(r1)
                      ELSE [err |-> "nil", r |-> r1]
                gz == Has(flags, optCompressed)
                gzok == Len(sk.r) = 1 /\ "gzip" \in DOMAIN sk.r[1]
            IN IF sk.err # "nil" THEN fail(sk.err)
               ELSE IF gz /\ ~gzok THEN fail("gzip")
               ELSE Decode(Encoding(flags),
                           IF gz THEN sk.r[1].gzip ELSE sk.r, dest)

(* SaveDataFile(filename, obj); the context is the name of the file, not   *)
(* of the temporary file it is written to.                                 *)
DataSave(o, n) ==
  /\ dpc = "idle"
  /\ masterKey \/ n = 0
  /\ wobj' = o
  /\ disk' = WriteFile("file", o, n)
  /\ dpc' = "saved"
  /\ UNCHANGED <<useGOB, compress, dst, got, rderr>>
  /\ UNCHANGED <<txVars, lockVars, saveVars, raceVars, streamVars, moreVars>>

(* ReadDataFile(filename, &dest).                                          *)
DataRead(dest) ==
  /\ dpc = "saved"
  /\ dest \in Destinations(wobj)
  /\ dst' = dest
  /\ got' = ReadFile("file", disk, dest).obj
  /\ rderr' = ReadFile("file", disk, dest).err
  /\ dpc' = "read"
  /\ UNCHANGED <<useGOB, compress, disk, wobj>>
  /\ UNCHANGED <<txVars, lockVars, saveVars, raceVars, streamVars, moreVars>>

DataInit ==
  /\ TxQuiet
  /\ masterKey \in BOOLEAN
  /\ LockQuiet
  /\ SaveQuiet
  /\ RaceQuiet
  /\ StreamQuiet
  /\ MoreQuiet
  /\ useGOB \in BOOLEAN
  /\ compress \in BOOLEAN
  /\ dpc = "idle"
  /\ disk = NoData
  /\ wobj = [kind |-> "struct", val |-> 0]
  /\ dst = [kind |-> "struct", val |-> 0]
  /\ got = [kind |-> "struct", val |-> 0]
  /\ rderr = "nil"

DataNext ==
  \/ \E o \in Objects, n \in 0..MaxPad : DataSave(o, n)
  \/ \E dest \in [kind : {"bytes"}, val : Bytes]
                   \cup {Zero(o) : o \in Objects} : DataRead(dest)

DataSpec == DataInit /\ [][DataNext]_vars

----------------------------------------------------------------------------
(* AESMasterKey.Save(passphrase, file) onto an existing key file (KeySpec). *)
(* The data is version, salt, numIter and the sealed key; the file holds   *)
(* the first len bytes of the data of the gen-th Save (0: the key file     *)
(* that was there), made with numIter = 10 ("few", empty passphrase) or    *)
(* 200000 ("many").                                                        *)

KeyData(sv) == [gen |-> sv.gen, iter |-> sv.iter, len |-> KeyFileSize]

(* os.WriteFile: OpenFile(name, O_WRONLY|O_CREATE|O_TRUNC, perm) leaves    *)
(* the file empty.                                                         *)
WriteFileOpen(sv) == [KeyData(sv) EXCEPT !.len = 0]

(* Save is called; the data is built.                                      *)
KeySaveCall(emptyPassphrase) ==
  /\ keySave.pc = "idle"
  /\ keySave.gen < MaxKeySaves
  /\ keySave' = [pc |-> "open", gen |-> keySave.gen + 1,
                 iter |-> IF emptyPassphrase THEN "few" ELSE "many",
                 err |-> FALSE, prev |-> keyFile]
  /\ UNCHANGED keyFile
  /\ UNCHANGED <<baseVars, cbcVars, blobVars>>

(* rand.Read, the cipher, os.MkdirAll or the OpenFile of os.WriteFile      *)
(* fails: Save returns the error.                                          *)
KeySaveFailsEarly ==
  /\ keySave.pc = "open"
  /\ keySave' = [keySave EXCEPT !.pc = "idle", !.err = TRUE]
  /\ UNCHANGED keyFile
  /\ UNCHANGED <<baseVars, cbcVars, blobVars>>

KeyOpenTrunc ==
  /\ keySave.pc = "open"
  /\ keyFile' = WriteFileOpen(keySave)
  /\ keySave' = [keySave EXCEPT !.pc = "write"]
  /\ UNCHANGED <<baseVars, cbcVars, blobVars>>

(* f.Write(data): the bytes reach the file one after the other.            *)
KeyWrite ==
  /\ keySave.pc = "write"
  /\ keyFile.len < KeyFileSize
  /\ keyFile' = [KeyData(keySave) EXCEPT !.len = keyFile.len + 1]
  /\ UNCHANGED keySave
  /\ UNCHANGED <<baseVars, cbcVars, blobVars>>

(* The write fails part of the way (no space left): Save returns the       *)
(* error.                                                                  *)
KeyWriteFails ==
  /\ keySave.pc = "write"
  /\ keyFile.len < KeyFileSize
  /\ keySave' = [keySave EXCEPT !.pc = "idle", !.err = TRUE]
  /\ UNCHANGED keyFile
  /\ UNCHANGED <<baseVars, cbcVars, blobVars>>

(* f.Close(); Save returns nil.                                            *)
KeySaveReturn ==
  /\ keySave.pc = "write"
  /\ keyFile.len = KeyFileSize
  /\ keySave' = [keySave EXCEPT !.pc = "idle"]
  /\ UNCHANGED keyFile
  /\ UNCHANGED <<baseVars, cbcVars, blobVars>>

(* The process dies during Save.                                           *)
KeyCrash ==
  /\ keySave.pc \in {"open", "write"}
  /\ keySave' = [keySave EXCEPT !.pc = "dead"]
  /\ UNCHANGED keyFile
  /\ UNCHANGED <<baseVars, cbcVars, blobVars>>

(* A new process works with the directory.                                 *)
KeyRestart ==
  /\ keySave.pc = "dead"
  /\ keySave' = [keySave EXCEPT !.pc = "idle"]
  /\ UNCHANGED keyFile
  /\ UNCHANGED <<baseVars, cbcVars, blobVars>>

KeyInit ==
  /\ TxQuiet
  /\ masterKey = TRUE
  /\ LockQuiet
  /\ SaveQuiet
  /\ RestQuiet

KeyNext ==
  \/ \E e \in BOOLEAN : KeySaveCall(e)
  \/ KeySaveFailsEarly
  \/ KeyOpenTrunc
  \/ KeyWrite
  \/ KeyWriteFails
  \/ KeySaveReturn
  \/ KeyCrash
  \/ KeyRestart

KeySpec == KeyInit /\ [][KeyNext]_vars

----------------------------------------------------------------------------
(* AESKey.Encrypt and AESKey.Decrypt of a key without TPM (CbcSpec).       *)

BlockSize == 16
MacSize == 32
KeyBytes == 64
aesEncryptedKeySize == 129

(* The bytes the messages are made of: among them the values that the      *)
(* padding bytes can have.                                                 *)
MsgBytes == {0, 1, BlockSize}

(* A message of n bytes v, the last one l.                                 *)
Fill(n, v, l) == [i \in 1..n |-> IF i = n THEN l ELSE v]

Messages == {Fill(n, v, l) : n \in 0..MaxMsgLen, v \in MsgBytes, l \in MsgBytes}

(* rand.Read(iv): the value of the IV plays no part here.                  *)
IV == [i \in 1..BlockSize |-> 7]

(* cipher.NewCBCEncrypter(block, iv).CryptBlocks and its inverse.          *)
CryptBlocks(b) == [i \in 1..Len(b) |-> b[i] + 256]
DecryptBlocks(b) == [i \in 1..Len(b) |-> b[i] - 256]

(* k.Hash(b): HMAC-SHA256, MacSize bytes.                                  *)
Hash(b) == [i \in 1..MacSize |-> 512 + Len(b)]

(* A padding that adds nothing to a message of whole blocks.               *)
PadSizeToBlock(n) == (BlockSize - (n % BlockSize)) % BlockSize

(* padSize := aes.BlockSize - len(data)%aes.BlockSize                      *)
PadSize(n) == BlockSize - (n % BlockSize)

(* AESKey.Encrypt: version, iv, the encrypted padded data, the HMAC.       *)
Encrypt(b) ==
  LET padSize == PadSize(Len(b))
      pData == b \o [i \in 1..padSize |-> padSize]
      encData == CryptBlocks(pData)
  IN <<1>> \o IV \o encData \o Hash(encData)

(* AESKey.Decrypt.  dec[len(dec)-1] of an empty dec is a run-time panic.   *)
Decrypt(d) ==
  IF (Len(d) - 1) % BlockSize # 0 \/ Len(d) - 1 < BlockSize + MacSize
  THEN [err |-> "ErrDecryptFailed", data |-> <<>>]
  ELSE IF d[1] # 1 THEN [err |-> "ErrDecryptFailed", data |-> <<>>]
  ELSE LET encData == SubSeq(d, 2 + BlockSize, Len(d) - MacSize)
           hm == SubSeq(d, Len(d) - MacSize + 1, Len(d))
           dec == DecryptBlocks(encData)
       IN IF hm # Hash(encData)
          THEN [err |-> "ErrDecryptFailed", data |-> <<>>]
          ELSE IF Len(dec) = 0 THEN [err |-> "panic", data |-> <<>>]
          ELSE LET padSize == dec[Len(dec)]
               IN IF padSize > Len(encData) \/ padSize > BlockSize
                  THEN [err |-> "ErrDecryptFailed", data |-> <<>>]
                  ELSE IF \E i \in 0..(padSize - 1) : dec[Len(dec) - i] # padSize
                  THEN [err |-> "ErrDecryptFailed", data |-> <<>>]
                  ELSE [err |-> "nil",
                        data |-> SubSeq(dec, 1, Len(dec) - padSize)]

(* mk.Encrypt(m)                                                           *)
CbcEncrypt(msg) ==
  /\ cres.op = "none"
  /\ cmsg' = msg
  /\ cenc' = Encrypt(msg)
  /\ cres' = [op |-> "encrypt", err |-> "nil", data |-> Encrypt(msg)]
  /\ UNCHANGED cfile
  /\ UNCHANGED <<baseVars, keyVars, blobVars>>

(* mk.Decrypt(enc) of what Encrypt returned.                               *)
CbcDecrypt ==
  /\ cres.op = "encrypt"
  /\ cres' = [op |-> "decrypt", err |-> Decrypt(cenc).err,
              data |-> Decrypt(cenc).data]
  /\ UNCHANGED <<cmsg, cenc, cfile>>
  /\ UNCHANGED <<baseVars, keyVars, blobVars>>

(* Decrypt of data that Encrypt did not make (ForgedSpec): a version, the  *)
(* IV, some blocks encrypted under the key, a MAC that is the MAC of the   *)
(* blocks or not, cut short by some bytes or not.                          *)
WrongMac == [i \in 1..MacSize |-> 0]

Forged(version, dec, goodMac, cut) ==
  LET encData == CryptBlocks(dec)
      d == <<version>> \o IV \o encData
             \o (IF goodMac THEN Hash(encData) ELSE WrongMac)
  IN SubSeq(d, 1, Len(d) - cut)

ForgedBlocks ==
  {Fill(n * BlockSize, v, l) : n \in 0..(MaxMsgLen \div BlockSize),
                               v \in MsgBytes, l \in MsgBytes}

(* mk.Decrypt(data) of the data given.                                     *)
CbcDecryptGiven ==
  /\ cres.op = "given"
  /\ cres' = [op |-> "decrypt", err |-> Decrypt(cenc).err,
              data |-> Decrypt(cenc).data]
  /\ UNCHANGED <<cmsg, cenc, cfile>>
  /\ UNCHANGED <<baseVars, keyVars, blobVars>>

ForgedInit ==
  /\ TxQuiet
  /\ masterKey = TRUE
  /\ LockQuiet
  /\ SaveQuiet
  /\ RaceQuiet
  /\ StreamQuiet
  /\ DataQuiet
  /\ KeyQuiet
  /\ BlobQuiet
  /\ cfile = <<>>
  /\ \E version \in {1, 3}, dec \in ForgedBlocks, goodMac \in BOOLEAN,
        cut \in {0, 1} :
       /\ cmsg = dec
       /\ cenc = Forged(version, dec, goodMac, cut)
  /\ cres = [op |-> "given", err |-> "nil", data |-> <<>>]

ForgedNext == CbcDecryptGiven

ForgedSpec == ForgedInit /\ [][ForgedNext]_vars

(* The exclusive or of two bytes.                                          *)
RECURSIVE Xor(_, _)
Xor(a, b) ==
  IF a = 0 /\ b = 0 THEN 0
  ELSE ((a + b) % 2) + 2 * Xor(a \div 2, b \div 2)

(* aesKeyFromBytes(b): the key is kept masked, and key() takes the mask    *)
(* off.                                                                    *)
MaskedKey(b, mask) == [i \in 1..Len(b) |-> Xor(b[i], mask)]
KeyOf(masked, mask) == [i \in 1..Len(masked) |-> Xor(masked[i], mask)]

(* A keysize that left the padding block out.                              *)
KeysizeUnpadded == aesEncryptedKeySize - BlockSize

(* AESKey.keysize() without TPM.                                           *)
Keysize == aesEncryptedKeySize

(* mk.NewKey(): KeyBytes random bytes, encrypted with the master key.      *)
NewKey(v, l, mask) ==
  /\ cres.op = "none"
  /\ LET b == Fill(KeyBytes, v, l)
     IN /\ cenc' = Encrypt(b)
        /\ cmsg' = KeyOf(MaskedKey(b, mask), mask)
  /\ cres' = [op |-> "newkey", err |-> "nil", data |-> <<>>]
  /\ UNCHANGED cfile
  /\ UNCHANGED <<baseVars, keyVars, blobVars>>

(* ek.WriteEncryptedKey(w); the writer then gets what follows the key in   *)
(* a file.                                                                 *)
WriteEncryptedKey(more) ==
  /\ cres.op = "newkey"
  /\ cfile' = cenc \o more
  /\ cres' = [op |-> "writekey",
              err |-> IF Len(cenc) = 0 THEN "ErrEncryptFailed" ELSE "nil",
              data |-> <<>>]
  /\ UNCHANGED <<cmsg, cenc>>
  /\ UNCHANGED <<baseVars, keyVars, blobVars>>

(* AESKey.DecryptKey(encryptedKey): the key() of the key it returns.       *)
DecryptKey(encryptedKey, mask) ==
  IF Len(encryptedKey) # Keysize
  THEN [err |-> "ErrDecryptFailed", data |-> <<>>]
  ELSE LET r == Decrypt(encryptedKey)
       IN IF r.err # "nil" THEN r
          ELSE IF Len(r.data) # KeyBytes
          THEN [err |-> "ErrDecryptFailed", data |-> <<>>]
          ELSE [err |-> "nil", data |-> KeyOf(MaskedKey(r.data, mask), mask)]

(* mk.ReadEncryptedKey(r): io.ReadFull of keysize() bytes, DecryptKey.     *)
ReadEncryptedKey(mask) ==
  /\ cres.op = "writekey"
  /\ cres.err = "nil"
  /\ LET r == IF Len(cfile) < Keysize
              THEN [err |-> "ErrDecryptFailed", data |-> <<>>]
              ELSE DecryptKey(SubSeq(cfile, 1, Keysize), mask)
     IN cres' = [op |-> "readkey", err |-> r.err, data |-> r.data]
  /\ UNCHANGED <<cmsg, cenc, cfile>>
  /\ UNCHANGED <<baseVars, keyVars, blobVars>>

(* The bytes that may follow the key in the writer.                        *)
Tails == {<<>>, <<1>>, Fill(BlockSize, 1, 1)}

CbcInit ==
  /\ TxQuiet
  /\ masterKey = TRUE
  /\ LockQuiet
  /\ SaveQuiet
  /\ RestQuiet

CbcNext ==
  \/ \E msg \in Messages : CbcEncrypt(msg)
  \/ CbcDecrypt
  \/ \E v \in MsgBytes, l \in MsgBytes, mask \in MsgBytes : NewKey(v, l, mask)
  \/ \E more \in Tails : WriteEncryptedKey(more)
  \/ \E mask \in MsgBytes : ReadEncryptedKey(mask)

CbcSpec == CbcInit /\ [][CbcNext]_vars

----------------------------------------------------------------------------
(* Containers and the names they are read under (BlobSpec): SaveDataFile   *)
(* or OpenBlobWrite for a final name, the caller's rename, ReadDataFile    *)
(* and OpenBlobRead.  A container holds less than one chunk of plaintext.  *)
(* The bytes of a stream are -1 for a byte of the header, -2 for a byte of *)
(* the padding and of its length, and the payload's own values.            *)

aesFileChunkSize == 1048576
HeaderSize == 5
PadLenSize == 4

Names == 1..NumNames

(* context(s): the SHA-1 of the name, its first four bytes and the rest.   *)
Context(s) == <<s % NumCtx, s>>

(* A nonce that leaves the context out.                                    *)
GcmNonceCounterOnly(ctx, counter) == <<0, counter>>

(* gcmNonce: the first four bytes of the context, then the counter.        *)
GcmNonce(ctx, counter) == <<ctx[1], counter>>

(* SaveDataFile(filename, obj): writeFile under context(filename).         *)
SaveDataFile(filename, o, n) ==
  WriteFile(GcmNonce(Context(filename), 1), o, n)

(* OpenBlobWrite(writeFileName, finalFileName), Write(b) and Close: raw    *)
(* bytes, encrypted and padded when there is a master key, written under   *)
(* context(finalFileName).                                                 *)
OpenBlobWrite(finalFileName, b, n) ==
  LET flags == optRawBytes
                 + (IF masterKey THEN optEncrypted + optPadded ELSE 0)
      w == <<Header(flags)>>
             \o (IF Has(flags, optPadded) THEN AddPadding(n) ELSE <<>>)
             \o b
  IN IF Has(flags, optEncrypted)
     THEN [hdr |-> Header(flags), key |-> TRUE,
           body |-> <<[sealed |-> w,
                       ctx |-> GcmNonce(Context(finalFileName), 1)]>>]
     ELSE [hdr |-> Header(flags), key |-> FALSE, body |-> b]

(* ReadDataFile(filename, &dest): the reader is started under              *)
(* context(filename).                                                      *)
ReadDataFile(filename, c, dest) ==
  ReadFile(GcmNonce(Context(filename), 1), c, dest)

(* The plaintext of the chunk of an encrypted raw container: the header,   *)
(* the length of the padding, the padding, the payload.                    *)
Dec(c) ==
  LET w == c.body[1].sealed
      n == IF Has(c.hdr.flags, optPadded) THEN PadLenSize + w[2].pad ELSE 0
      k == IF Has(c.hdr.flags, optPadded) THEN 2 + w[2].pad ELSE 1
  IN [i \in 1..HeaderSize |-> -1] \o [i \in 1..n |-> -2] \o Drop(w, k)

(* The bytes of a container that is not encrypted.                         *)
FileBytes(c) == [i \in 1..HeaderSize |-> -1] \o c.body

(* AESStreamReader.readChunk: what is left of the input is read and        *)
(* opened under the nonce of the reader's context and offset.              *)
AesReadChunk(a, c) ==
  IF a.fpos > 0 THEN [a |-> a, err |-> "EOF"]
  ELSE IF GcmNonce(a.ctx, (a.off \div aesFileChunkSize) + 1) # c.body[1].ctx
  THEN [a |-> [a EXCEPT !.fpos = 1], err |-> "ErrDecryptFailed"]
  ELSE [a |-> [a EXCEPT !.fpos = 1, !.buf = @ \o Dec(c)], err |-> "nil"]

(* AESStreamReader.Read of k bytes.                                        *)
RECURSIVE AesRead(_, _, _, _)
AesRead(a, c, k, done) ==
  LET nn == IF Len(a.buf) < k - Len(done) THEN Len(a.buf) ELSE k - Len(done)
      a1 == [a EXCEPT !.buf = Drop(@, nn), !.off = @ + nn]
      d1 == done \o SubSeq(a.buf, 1, nn)
      rc == AesReadChunk(a1, c)
  IN IF Len(d1) = k THEN [a |-> a1, data |-> d1, err |-> "nil"]
     ELSE IF rc.err # "nil"
     THEN [a |-> rc.a, data |-> d1,
           err |-> IF Len(d1) > 0 THEN "nil" ELSE rc.err]
     ELSE AesRead(rc.a, c, k, d1)

(* AESStreamReader.Seek.                                                   *)
AesSeek(a, c, offset, whence) ==
  LET size == Len(Dec(c)) + Overhead
      nChunks == size \div (aesFileChunkSize + Overhead)
      last == size % (aesFileChunkSize + Overhead)
      lastChunkSize == IF last > 0 THEN last - Overhead ELSE last
      decSize == nChunks * aesFileChunkSize + lastChunkSize
      s == IF whence = "end" THEN [a EXCEPT !.fpos = 1] ELSE a
      newOffset == CASE whence = "start" -> offset
                     [] whence = "current" -> a.off + offset
                     [] whence = "end" -> decSize + offset
      d == newOffset - a.off
  IN IF whence = "end" /\ lastChunkSize < 0
     THEN [a |-> s, n |-> 0, err |-> "invalid last chunk"]
     ELSE IF newOffset < 0 THEN [a |-> s, n |-> 0, err |-> "ErrInvalid"]
     ELSE IF newOffset = a.off THEN [a |-> s, n |-> a.off, err |-> "nil"]
     ELSE IF d > 0 /\ d < Len(a.buf)
     THEN [a |-> [s EXCEPT !.buf = Drop(@, d), !.off = newOffset],
           n |-> newOffset, err |-> "nil"]
     ELSE
       LET rc == AesReadChunk([s EXCEPT !.off = newOffset, !.buf = <<>>,
                                        !.fpos = newOffset \div aesFileChunkSize],
                              c)
           chunkOffset == newOffset % aesFileChunkSize
       IN IF rc.err \notin {"nil", "EOF"}
          THEN [a |-> rc.a, n |-> 0, err |-> rc.err]
          ELSE [a |-> [rc.a EXCEPT !.buf = IF chunkOffset < Len(@)
                                           THEN Drop(@, chunkOffset)
                                           ELSE <<>>],
                n |-> newOffset, err |-> "nil"]

(* os.File: Read of k bytes and Seek.                                      *)
FileRead(a, c, k) ==
  LET left == Drop(FileBytes(c), a.off)
      nn == IF Len(left) < k THEN Len(left) ELSE k
  IN [a |-> [a EXCEPT !.off = @ + nn], data |-> SubSeq(left, 1, nn),
      err |-> IF nn = 0 THEN "EOF" ELSE "nil"]

FileSeek(a, c, offset, whence) ==
  LET newOffset == CASE whence = "start" -> offset
                     [] whence = "current" -> a.off + offset
                     [] whence = "end" -> Len(FileBytes(c)) + offset
  IN IF newOffset < 0 THEN [a |-> a, n |-> 0, err |-> "EINVAL"]
     ELSE [a |-> [a EXCEPT !.off = newOffset], n |-> newOffset, err |-> "nil"]

(* The stream under the seekWrapper: the file, or the AESStreamReader on   *)
(* it when the container is encrypted.                                     *)
UnderRead(a, c, k) ==
  IF a.enc THEN AesRead(a, c, k, <<>>) ELSE FileRead(a, c, k)
UnderSeek(a, c, offset, whence) ==
  IF a.enc THEN AesSeek(a, c, offset, whence)
  ELSE FileSeek(a, c, offset, whence)

NoReader ==
  [open |-> FALSE, enc |-> FALSE, start |-> 0, ctx |-> <<0, 0>>, off |-> 0,
   buf |-> <<>>, fpos |-> 0]

(* OpenBlobRead(filename) on container c: the checks of the header, the    *)
(* reader started under context(filename), the header read again, the      *)
(* padding skipped, and the wrapper that starts where the stream is then.  *)
OpenBlobRead(filename, c) ==
  LET flags == c.hdr.flags
      fail(e) == [err |-> e, r |-> NoReader]
      f == [NoReader EXCEPT !.off = HeaderSize]
  IN IF c.hdr.magic # "KRIN" THEN fail("wrong file type")
     ELSE IF ~Has(flags, optRawBytes) THEN fail("blob files is not raw bytes")
     ELSE IF Has(flags, optCompressed)
     THEN fail("blob files cannot be compressed")
     ELSE IF Has(flags, optEncrypted) /\ ~masterKey THEN fail("no master key")
     ELSE IF ~Has(flags, optEncrypted)
     THEN [err |-> "nil", r |-> [f EXCEPT !.open = TRUE, !.start = f.off]]
     ELSE
       LET a == [NoReader EXCEPT !.enc = TRUE, !.ctx = Context(filename)]
           h == AesRead(a, c, HeaderSize, <<>>)
           len == AesRead(h.a, c, PadLenSize, <<>>)
           n == c.body[1].sealed[2].pad
           sk == IF Has(flags, optPadded)
                 THEN IF len.err # "nil" \/ Len(len.data) < PadLenSize
                      THEN [a |-> len.a, n |-> 0, err |-> "padding"]
                      ELSE AesSeek(len.a, c, n, "current")
                 ELSE [a |-> h.a, n |-> h.a.off, err |-> "nil"]
           cur == AesSeek(sk.a, c, 0, "current")
       IN IF ~c.key THEN fail("ErrDecryptFailed")
          ELSE IF h.err # "nil" THEN fail(h.err)
          ELSE IF Len(h.data) < HeaderSize THEN fail("unexpected EOF")
          ELSE IF Head(c.body[1].sealed) # c.hdr
          THEN fail("wrong encrypted header")
          ELSE IF sk.err # "nil" THEN fail(sk.err)
          ELSE IF cur.err # "nil" THEN fail(cur.err)
          ELSE [err |-> "nil",
                r |-> [cur.a EXCEPT !.open = TRUE, !.start = cur.n]]

(* seekWrapper.Seek.                                                       *)
WrapperSeek(r, c, offset, whence) ==
  LET u == IF whence = "start" THEN UnderSeek(r, c, r.start + offset, whence)
           ELSE UnderSeek(r, c, offset, whence)
      newOffset == u.n - r.start
  IN [a |-> u.a, n |-> newOffset,
      err |-> IF newOffset < 0 THEN "ErrInvalid" ELSE u.err]

(* The last call and what it returned; seekFailed: a Seek of the reader    *)
(* has returned an error.                                                  *)
NoBlobResult ==
  [op |-> "none", err |-> "nil", n |-> 0, from |-> 0, data |-> <<>>,
   seekFailed |-> FALSE]

(* SaveDataFile(F, o): the container is written for F and is at F.         *)
BlobSave(F, o, n) ==
  /\ blob.final = 0
  /\ masterKey \/ n = 0
  /\ blob' = [c |-> SaveDataFile(F, o, n), final |-> F, at |-> F,
              o |-> o]
  /\ UNCHANGED <<rdr, bres>>
  /\ UNCHANGED <<baseVars, keyVars, cbcVars>>

(* OpenBlobWrite(tmp, F), Write(b), Close: the container is written for F  *)
(* and is at tmp.                                                          *)
BlobWrite(tmp, F, b, n) ==
  /\ blob.final = 0
  /\ tmp # F
  /\ masterKey \/ n = 0
  /\ blob' = [c |-> OpenBlobWrite(F, b, n), final |-> F, at |-> tmp,
              o |-> [kind |-> "bytes", val |-> b]]
  /\ UNCHANGED <<rdr, bres>>
  /\ UNCHANGED <<baseVars, keyVars, cbcVars>>

(* The caller renames the file.                                            *)
BlobRename(g) ==
  /\ blob.final # 0
  /\ blob.at # g
  /\ ~rdr.open
  /\ blob' = [blob EXCEPT !.at = g]
  /\ bres' = NoBlobResult
  /\ UNCHANGED rdr
  /\ UNCHANGED <<baseVars, keyVars, cbcVars>>

(* ReadDataFile(at, &dest) into a zero value of the object's type.         *)
BlobReadData ==
  /\ blob.final # 0
  /\ ~rdr.open
  /\ LET r == ReadDataFile(blob.at, blob.c, Zero(blob.o))
     IN bres' = [op |-> "ReadDataFile", err |-> r.err, n |-> 0, from |-> 0,
                 data |-> IF r.obj.kind = "bytes" THEN r.obj.val
                          ELSE <<r.obj.val>>,
                 seekFailed |-> FALSE]
  /\ UNCHANGED <<blob, rdr>>
  /\ UNCHANGED <<baseVars, keyVars, cbcVars>>

(* OpenBlobRead(at).                                                       *)
BlobOpen ==
  /\ blob.final # 0
  /\ ~rdr.open
  /\ LET r == OpenBlobRead(blob.at, blob.c)
     IN /\ rdr' = r.r
        /\ bres' = [op |-> "OpenBlobRead", err |-> r.err, n |-> 0,
                    from |-> 0, data |-> <<>>, seekFailed |-> FALSE]
  /\ UNCHANGED blob
  /\ UNCHANGED <<baseVars, keyVars, cbcVars>>

(* Close of the reader.                                                    *)
BlobClose ==
  /\ rdr.open
  /\ rdr' = NoReader
  /\ bres' = NoBlobResult
  /\ UNCHANGED blob
  /\ UNCHANGED <<baseVars, keyVars, cbcVars>>

BlobInit ==
  /\ TxQuiet
  /\ masterKey \in BOOLEAN
  /\ LockQuiet
  /\ SaveQuiet
  /\ RaceQuiet
  /\ StreamQuiet
  /\ KeyQuiet
  /\ CbcQuiet
  /\ useGOB = TRUE
  /\ compress \in BOOLEAN
  /\ dpc = "idle"
  /\ disk = NoData
  /\ wobj = [kind |-> "struct", val |-> 0]
  /\ dst = [kind |-> "struct", val |-> 0]
  /\ got = [kind |-> "struct", val |-> 0]
  /\ rderr = "nil"
  /\ BlobQuiet

BlobNext ==
  \/ \E F \in Names, o \in Objects, n \in 0..MaxPad : BlobSave(F, o, n)
  \/ \E tmp \in Names, F \in Names, b \in Bytes, n \in 0..MaxPad :
       BlobWrite(tmp, F, b, n)
  \/ \E g \in Names : BlobRename(g)
  \/ BlobReadData
  \/ BlobOpen
  \/ BlobClose

BlobSpec == BlobInit /\ [][BlobNext]_vars

(* CreateEmptyFile and the autocert cache on it (CacheSpec).  The cache    *)
(* is one file, fileName; its Entries map is the set of its keys, kept as  *)
(* a sum of powers of two in the value of the struct.                      *)

NumKeys == 2
Keys == 1..NumKeys
fileName == Min(Names)
KeyBit(key) == 2 ^ (key - 1)
CacheContent(entries) == [kind |-> "struct", val |-> entries]

(* The file name is in the directory.                                      *)
Exists(b, filename) == b.final # 0 /\ b.at = filename

(* An open that truncates the file it finds.                               *)
OpenFileTruncates(b, fullPath) == "nil"

(* os.OpenFile(fullPath, O_WRONLY|O_CREATE|O_EXCL|O_SYNC, 0600) of         *)
(* openWriteStream.                                                        *)
OpenFileExcl(b, fullPath) == IF Exists(b, fullPath) THEN "EEXIST" ELSE "nil"

(* CreateEmptyFile(filename, empty): writeFile(context(filename),          *)
(* filename, empty), which returns the error of openWriteStream before     *)
(* anything is written.                                                    *)
CreateEmptyFile(b, filename, empty, n) ==
  IF OpenFileExcl(b, filename) # "nil"
  THEN [blob |-> b, err |-> OpenFileExcl(b, filename)]
  ELSE [blob |-> [c |-> WriteFile(GcmNonce(Context(filename), 1), empty, n),
                  final |-> filename, at |-> filename, o |-> empty],
        err |-> "nil"]

(* OpenForUpdate(fileName, &cc): the file is read into an empty cc.        *)
CacheOpen(b) ==
  IF ~Exists(b, fileName) THEN [err |-> "ENOENT", obj |-> CacheContent(0)]
  ELSE ReadDataFile(fileName, b.c, CacheContent(0))

(* The rest of an update: the error of OpenForUpdate is returned, or       *)
(* commit(true, nil) saves cc with its new entries.                        *)
CacheCommit(b, r, entries, n) ==
  IF r.err # "nil" THEN [blob |-> b, err |-> r.err]
  ELSE [blob |-> [c |-> SaveDataFile(fileName, CacheContent(entries), n),
                  final |-> fileName, at |-> fileName,
                  o |-> CacheContent(entries)],
        err |-> "nil"]

CacheResult(op, err, keys) ==
  [op |-> op, err |-> err, n |-> 0, from |-> 0, data |-> keys,
   seekFailed |-> FALSE]

(* autocertcache.New(fileName, storage): CreateEmptyFile(fileName,         *)
(* cacheContent{}), whose error New drops; it is kept here as the result.  *)
CacheNew(n) ==
  /\ masterKey \/ n = 0
  /\ LET r == CreateEmptyFile(blob, fileName, CacheContent(0), n)
     IN /\ blob' = r.blob
        /\ bres' = CacheResult("New", r.err, <<>>)
  /\ UNCHANGED rdr
  /\ UNCHANGED <<baseVars, keyVars, cbcVars>>

(* Cache.Put(key, data).                                                   *)
CachePut(key, n) ==
  /\ masterKey \/ n = 0
  /\ LET cc == CacheOpen(blob)
         e == cc.obj.val
         r == CacheCommit(blob, cc,
                          IF Has(e, KeyBit(key)) THEN e ELSE e + KeyBit(key),
                          n)
     IN /\ blob' = r.blob
        /\ bres' = CacheResult("Put", r.err, <<>>)
  /\ UNCHANGED rdr
  /\ UNCHANGED <<baseVars, keyVars, cbcVars>>

(* Cache.Delete(key).                                                      *)
CacheDelete(key, n) ==
  /\ masterKey \/ n = 0
  /\ LET cc == CacheOpen(blob)
         e == cc.obj.val
         r == CacheCommit(blob, cc,
                          IF Has(e, KeyBit(key)) THEN e - KeyBit(key) ELSE e,
                          n)
     IN /\ blob' = r.blob
        /\ bres' = CacheResult("Delete", r.err, <<>>)
  /\ UNCHANGED rdr
  /\ UNCHANGED <<baseVars, keyVars, cbcVars>>

(* Cache.Keys(): ReadDataFile(fileName, &cc) and the keys of cc.Entries.   *)
CacheKeys ==
  /\ LET r == CacheOpen(blob)
     IN bres' = CacheResult("Keys", r.err,
                            IF r.err = "nil" THEN <<r.obj.val>> ELSE <<>>)
  /\ UNCHANGED <<blob, rdr>>
  /\ UNCHANGED <<baseVars, keyVars, cbcVars>>

CacheInit == BlobInit

CacheNext ==
  \/ \E n \in 0..MaxPad : CacheNew(n)
  \/ \E key \in Keys, n \in 0..MaxPad : CachePut(key, n)
  \/ \E key \in Keys, n \in 0..MaxPad : CacheDelete(key, n)
  \/ CacheKeys

CacheSpec == CacheInit /\ [][CacheNext]_vars

(* An encrypted container whose outer flags byte is replaced, and the      *)
(* readers on it (TamperSpec).  The inner header, sealed with the content, *)
(* keeps the flags the container was written with.                         *)
InnerFlags(c) == c.body[1].sealed[1].flags

(* The values the flags byte is replaced by: every encoding, one that does *)
(* not exist, and every combination of the three bits.                     *)
TamperedFlags ==
  {enc + e * optEncrypted + z * optCompressed + p * optPadded :
     enc \in 1..5, e \in 0..1, z \in 0..1, p \in 0..1}

(* Byte 4 of the file is overwritten with v.                               *)
BlobTamper(v) ==
  /\ blob.final # 0
  /\ ~rdr.open
  /\ blob.c.hdr.flags = InnerFlags(blob.c)
  /\ v # blob.c.hdr.flags
  /\ blob' = [blob EXCEPT !.c.hdr.flags = v]
  /\ bres' = NoBlobResult
  /\ UNCHANGED rdr
  /\ UNCHANGED <<baseVars, keyVars, cbcVars>>

TamperInit ==
  /\ TxQuiet
  /\ masterKey = TRUE
  /\ LockQuiet
  /\ SaveQuiet
  /\ RaceQuiet
  /\ StreamQuiet
  /\ KeyQuiet
  /\ CbcQuiet
  /\ useGOB \in BOOLEAN
  /\ compress \in BOOLEAN
  /\ dpc = "idle"
  /\ disk = NoData
  /\ wobj = [kind |-> "struct", val |-> 0]
  /\ dst = [kind |-> "struct", val |-> 0]
  /\ got = [kind |-> "struct", val |-> 0]
  /\ rderr = "nil"
  /\ BlobQuiet

TamperNext ==
  \/ \E o \in Objects, n \in 0..MaxPad : BlobSave(Min(Names), o, n)
  \/ \E b \in Bytes, n \in 0..MaxPad :
       BlobWrite(Max(Names), Min(Names), b, n)
  \/ BlobRename(Min(Names))
  \/ \E v \in TamperedFlags : BlobTamper(v)
  \/ BlobReadData
  \/ BlobOpen
  \/ BlobClose

TamperSpec == TamperInit /\ [][TamperNext]_vars

(* A reader OpenBlobRead returned for a blob at its final name, and the    *)
(* calls of Seek and Read on it (WrapperSpec).                             *)
BlobSeek(offset, whence) ==
  /\ rdr.open
  /\ LET r == WrapperSeek(rdr, blob.c, offset, whence)
     IN /\ r.a.off \in 0..(Len(blob.o.val) + rdr.start + 1)
        /\ rdr' = r.a
        /\ bres' = [op |-> "Seek", err |-> r.err, n |-> r.n,
                    from |-> rdr.off - rdr.start, data |-> <<>>,
                    seekFailed |-> bres.seekFailed \/ r.err # "nil"]
  /\ UNCHANGED blob
  /\ UNCHANGED <<baseVars, keyVars, cbcVars>>

BlobRead(k) ==
  /\ rdr.open
  /\ LET r == UnderRead(rdr, blob.c, k)
     IN /\ rdr' = r.a
        /\ bres' = [op |-> "Read", err |-> r.err, n |-> Len(r.data),
                    from |-> rdr.off - rdr.start, data |-> r.data,
                    seekFailed |-> bres.seekFailed]
  /\ UNCHANGED blob
  /\ UNCHANGED <<baseVars, keyVars, cbcVars>>

WrapperInit ==
  /\ TxQuiet
  /\ masterKey \in BOOLEAN
  /\ LockQuiet
  /\ SaveQuiet
  /\ RaceQuiet
  /\ StreamQuiet
  /\ DataQuiet
  /\ KeyQuiet
  /\ CbcQuiet
  /\ \E F \in Names, b \in Bytes, n \in 0..MaxPad :
       /\ masterKey \/ n = 0
       /\ blob = [c |-> OpenBlobWrite(F, b, n), final |-> F, at |-> F,
                  o |-> [kind |-> "bytes", val |-> b]]
       /\ rdr = OpenBlobRead(F, OpenBlobWrite(F, b, n)).r
  /\ bres = [NoBlobResult EXCEPT !.op = "OpenBlobRead"]

WrapperNext ==
  \/ \E offset \in -(HeaderSize + PadLenSize + MaxPad + MaxBytes + 1)
                     ..(HeaderSize + PadLenSize + MaxPad + MaxBytes + 1),
        whence \in {"start", "current", "end"} : BlobSeek(offset, whence)
  \/ \E k \in 1..MaxBuf : BlobRead(k)

WrapperSpec == WrapperInit /\ [][WrapperNext]_vars

----------------------------------------------------------------------------
(* What the claims speak about.                                            *)

AllOld == \A f \in files : file[f] = pre[f]
AllNew == \A f \in files : file[f] = Container(obj[f], ntx)
WriteFailed == \E i \in 1..Len(errorList) : errorList[i].kind = "write"
MultiFile == Cardinality(files) >= 2
CommitPcs == {"backup", "pending", "save", "restore", "delete", "unlock"}

C2_AllOrNothingAfterRecovery ==
  (pc = "idle" /\ recovered /\ commit /\ MultiFile /\ crashPc \in CommitPcs) =>
     (AllOld \/ AllNew)

(* C3: a single-file update: after commit(true) returned nil the file      *)
(* decodes to the modified object; after commit(false), or after a         *)
(* commit(true) whose write failed, the file is byte for byte what it was. *)
C3_SingleFileUpdate ==
  (pc = "returned" /\ Cardinality(files) = 1) =>
     /\ ((commit /\ firstRet = Nil) =>
           \A f \in files : file[f].full /\ file[f].obj = obj[f])
     /\ (~commit => AllOld)
     /\ ((commit /\ WriteFailed) => (AllOld /\ firstRet # Nil))

(* C3 witness: a single-file commit(true) has returned nil and the file    *)
(* is no longer what it was.                                               *)
C3_Witness ==
  /\ pc = "returned" /\ Cardinality(files) = 1 /\ commit /\ firstRet = Nil
  /\ \A f \in files : file[f] # pre[f] /\ file[f].obj = obj[f]

(* C8: once the first call of the closure has returned, the transaction    *)
(* holds none of its lock files any more.                                  *)
C8_NoLockHeldAfterReturn == pc = "returned" => held = {}

(* C9: the closure acts at most once: a first call with false returns      *)
(* ErrRolledBack when Unlock does not fail; a later call touches no file   *)
(* and no lock, and returns ErrAlreadyCommitted exactly when the first     *)
(* call was a commit whose update reached the files, ErrAlreadyRolledBack  *)
(* otherwise.                                                              *)
C9_ClosureActsOnce ==
  [][ /\ (pc = "unlock" /\ pc' = "returned" /\ ~commit
          /\ (\A f \in files : lock[f])) => ret' = ErrRolledBack
      /\ (pc = "returned" /\ pc' = "returned" /\ calls' = 2) =>
           /\ UNCHANGED <<file, bck, pend, pendFiles, lock>>
           /\ ret' = IF commit /\ AllNew THEN ErrAlreadyCommitted
                     ELSE ErrAlreadyRolledBack ]_vars

(* C9 witness: the closure has been called again after a commit that       *)
(* returned nil.                                                           *)
C9_Witness ==
  pc = "returned" /\ calls = 2 /\ firstRet = Nil /\ commit
    /\ ret = ErrAlreadyCommitted

(* C10: the closure never changes a caller error variable that is not nil, *)
(* and never changes it in a later call; a first call given a pointer at   *)
(* a nil error leaves in it the value it returns, which wraps the first    *)
(* write error when a write of the commit failed.                          *)
C10_ErrorVariable ==
  [][ /\ (called /\ called' /\ callerErr # Nil) => callerErr' = callerErr
      /\ (pc = "returned" /\ pc' = "returned") => callerErr' = callerErr
      /\ (called /\ pc # "returned" /\ pc' = "returned" /\ errpCaller) =>
           /\ callerErr' = ret'
           /\ (commit /\ WriteFailed) =>
                (ErrorsIs(ret', errorList[1]) /\ ret'.kind = "s.SaveDataFile") ]_vars

(* C10 witness: a commit given a pointer at a nil error has returned       *)
(* after both writes failed.                                               *)
C10_Witness ==
  /\ pc = "returned" /\ errpCaller /\ commit /\ WriteFailed
  /\ Len(errorList) = 2 /\ callerErr = firstRet
  /\ ErrorsIs(callerErr, errorList[1])

----------------------------------------------------------------------------
(* Claims about the lock manager.                                          *)

Exclusion == \A p, q \in Procs : p # q => holds[p] \cap holds[q] = {}

(* C4, as stated: once a Lock(fn) has returned, no other Lock(fn) returns  *)
(* until the holder has called Unlock(fn), waiters reaping stale locks     *)
(* included.                                                               *)
C4_MutualExclusion == Exclusion

(* C4: as long as no lock file has been 600 seconds old or more, once a    *)
(* Lock(fn) has returned no other Lock(fn) returns until the holder has    *)
(* called Unlock(fn).                                                      *)
C4_ExclusionWhileFresh == ~everStale => Exclusion

(* C4 witness: a caller holds the lock, time has passed, and a waiter has  *)
(* run its stale check, left the lock file alone, and is trying again.     *)
C4_Witness ==
  /\ ~everStale
  /\ lockAge[Foo] >= 1
  /\ \E p, q \in Procs :
       /\ p # q
       /\ Foo \in holds[p]
       /\ lpc[q] = "try" /\ deadline[q] # 0

(* C5: callers that run OpenForUpdate / modify / commit(true) on the same  *)
(* file, none keeping the lock file for 600 seconds: each reads what the   *)
(* previous holder committed and the file reflects every commit.           *)
C5_SerializedUpdates ==
  ~everStale =>
     /\ data[Foo] = commits[Foo]
     /\ \A p \in Procs : lpc[p] = "opened" => rd[p] = data[Foo]

(* C5 witness: a caller has read the value an earlier caller committed     *)
(* while another caller of OpenForUpdate is being refused the lock.        *)
C5_Witness ==
  /\ ~everStale
  /\ \E p, q \in Procs :
       /\ p # q
       /\ lpc[p] = "opened" /\ rd[p] = 1 /\ commits[Foo] = 1
       /\ update[q] /\ lpc[q] = "stat"

InLock(p) == lpc[p] \in {"try", "stat", "remove"}
WaitsFor(p, q) == p # q /\ InLock(p) /\ Cur(p) \in holds[q]
CyclicWait ==
  \E S \in SUBSET Procs :
     S # {} /\ \A p \in S : \E q \in S : WaitsFor(p, q)
CanProceed(p) ==
  \/ lpc[p] \in {"locked", "unlock"}
  \/ InLock(p) /\ lockAge[Cur(p)] = -1

(* C7: callers of LockMany with overlapping lists in any order never wait  *)
(* in a cycle, and whenever a caller is in LockMany some caller can go on: *)
(* one that has all its locks and will unlock, or one whose next lock is   *)
(* free.                                                                   *)
C7_NoCyclicWait ==
  /\ ~CyclicWait
  /\ (\E p \in Procs : InLock(p)) => \E q \in Procs : CanProceed(q)

(* C7 witness: a caller that already holds a lock waits for a lock held by *)
(* another caller.                                                         *)
C7_Witness ==
  \E p, q \in Procs :
     /\ WaitsFor(p, q)
     /\ holds[p] # {}
     /\ lpc[p] = "stat"

----------------------------------------------------------------------------
(* C6: SaveDataFile replaces the file atomically: the path never names a   *)
(* partially written container, a reader without a lock finds the complete *)
(* container that was at the path when it opened the file (the old or the  *)
(* new one), and after SaveDataFile returned an error the file is what it  *)
(* was when SaveDataFile was called.                                       *)
C6_AtomicReplace ==
  /\ inode[fpath].full
  /\ (rpc = "idle" /\ rgot # NoFile) => (rgot.full /\ rgot = atOpen)
  /\ (wpc = "idle" /\ wret = "err") => inode[fpath] = atCall

(* C6 witness: the reader opened the file before the rename and finished   *)
(* reading after it: it holds the complete old container while the path    *)
(* names the new one.                                                      *)
C6_Witness ==
  /\ rpc = "idle" /\ rgot.full /\ rgot = atOpen
  /\ wret = "nil"
  /\ inode[fpath] # rgot
  /\ inode[fpath].obj = rgot.obj + 1

----------------------------------------------------------------------------
(* C11: when restore ends on the backup that createBackup made of the      *)
(* transaction's files (called by the closure, or by New() after the       *)
(* process died before the backup was being deleted), every listed file    *)
(* is what it was when the backup was made, whatever SaveDataFile has      *)
(* replaced since, and the pending record is gone.  pre holds the files    *)
(* as the latest transaction found them, so the restore looked at is the   *)
(* one of that transaction's record.                                       *)
RestoreEnds ==
  /\ ntx \in TxIds
  /\ pend[ntx] = "rec"
  /\ \/ pc = "restore" /\ pc' = "unlock"
     \/ /\ pc = "rec_restore" /\ pc' = "rec"
        /\ Head(recList) = ntx
        /\ crashPc # "delete"

C11_RestoreBringsBackupBack ==
  [][RestoreEnds => /\ pendFiles[ntx] = files
                    /\ \A f \in pendFiles[ntx] : file'[f] = pre[f]
                    /\ pend'[ntx] = "none"]_vars

(* New() has restored a backup all of whose files had been replaced.       *)
C11_Witness ==
  /\ pc = "rec"
  /\ crashPc = "save"
  /\ MultiFile
  /\ pend[ntx] = "none"
  /\ \A f \in files : bck[ntx][f] = NoFile /\ file[f] = pre[f]

----------------------------------------------------------------------------
(* C12: after the process died at any point of a multi-file commit, New()  *)
(* on the directory never fails in rollbackPendingOps, and once it has     *)
(* returned the pending directory is empty.                                *)
C12_RecoveryCompletes ==
  /\ pc # "fatal"
  /\ (pc = "idle" /\ recovered) => \A t \in TxIds : pend[t] = "none"

----------------------------------------------------------------------------
(* C13: while the commit closure of a transaction is running in one        *)
(* Storage, New() of another Storage on the directory renames no backup    *)
(* file, removes no pending record and removes no lock file.               *)
StealStep ==
  /\ pc \in CommitPcs
  /\ newPc' # newPc \/ newSt' # newSt
  /\ file' # file \/ bck' # bck \/ pend' # pend \/ lock' # lock

C13_NoStealing == [][~StealStep]_vars

----------------------------------------------------------------------------
(* C14: when the holder of the lock has died, a caller waiting in Lock on  *)
(* the name gets the lock in the end; and a turn of its loop that finds    *)
(* the lock file more than 660 seconds old removes it.                     *)
Over660(f) == lockAge[f] # -1 /\ lockAge[f] * TickSeconds > StaleSeconds + StaleJitter

ReapsWhenOver660 ==
  \A p \in Procs :
    (lpc[p] = "stat" /\ lpc'[p] # "stat" /\ Over660(Cur(p)))
      => lpc'[p] = "remove"

C14_WaiterGetsStaleLock ==
  /\ (lpc[Holder] = "dead" /\ InLock(Waiter)) ~> (lpc[Waiter] = "locked")
  /\ [][ReapsWhenOver660]_vars

(* The waiter holds the lock after it removed the dead holder's file.      *)
C14_Witness ==
  /\ lpc[Holder] = "dead"
  /\ lpc[Waiter] = "locked"
  /\ Foo \in holds[Holder]
  /\ lockAge[Foo] = 0

----------------------------------------------------------------------------
(* C15: when OpenManyForUpdate has returned the error of a failed read,    *)
(* there is no closure to call, none of the lock files it created is left  *)
(* and the files are what they were.                                       *)
C15_FailedOpenLeavesNothing ==
  pc = "openfailed" => /\ ~called
                       /\ held = {}
                       /\ file = pre

----------------------------------------------------------------------------
(* C16: on a stream one chunk of which was corrupted, no Read returns      *)
(* io.EOF unless a Read has returned ErrDecryptFailed before, and no Read  *)
(* delivers a byte of the corrupted chunk or of a later one.               *)
C16_CorruptionIsReported ==
  (corrupt # 0 /\ res.op = "read") =>
    /\ res.err = "EOF" => failed
    /\ \A i \in 1..Len(res.data) : res.data[i] < (corrupt - 1) * ChunkSize

----------------------------------------------------------------------------
(* What a Read on an intact stream must return at plaintext offset from:   *)
(* the bytes from there on, at least one while some remain, and            *)
(* (0, io.EOF) at the end of the plaintext.                                *)
ReadsPlain ==
  res.op = "read" =>
    LET from == pos - res.n
    IN /\ res.data = [i \in 1..res.n |-> from + i - 1]
       /\ from + res.n <= plen
       /\ from < plen => res.n > 0 /\ res.err = "nil"
       /\ from >= plen => res.n = 0 /\ res.err = "EOF"

(* What a Seek must return: the target offset and no error.                *)
SeeksTarget == res.op = "seek" => res.n = res.arg /\ res.err = "nil"

(* C17: after Seek(p, SeekStart) or Seek(d, SeekCurrent) to an offset q of *)
(* the plaintext, on a reader in any state earlier Reads and Seeks left    *)
(* it in, Seek has returned q and the Reads that follow return the bytes   *)
(* from q on.                                                              *)
C17_SeekStartCurrent ==
  lastSeek \in {"start", "current"} => SeeksTarget /\ ReadsPlain

(* The same when no earlier Seek was from the end.                         *)
C17_WithoutSeekEnd ==
  (lastSeek \in {"start", "current"} /\ hist # "seekend")
    => SeeksTarget /\ ReadsPlain

(* C18: after Seek(delta, SeekEnd) to an offset of the plaintext, Seek has *)
(* returned len(P) + delta and the Reads that follow return the bytes from *)
(* there to the end, then io.EOF.                                          *)
C18_SeekEnd == lastSeek = "end" => SeeksTarget /\ ReadsPlain

(* C19: whatever the Write calls the plaintext was given in, the Reads of  *)
(* a reader on the closed stream return its bytes in order, at least one   *)
(* per Read while some remain, and (0, io.EOF) after the last.             *)
C19_RoundTrip == corrupt = 0 => ReadsPlain

(* A plaintext of several chunks given in several Writes was read to its   *)
(* end.                                                                    *)
C19_Witness ==
  /\ corrupt = 0
  /\ split
  /\ Len(out) > 2
  /\ Len(out[Len(out)].data) < ChunkSize
  /\ res.op = "read"
  /\ res.err = "EOF"
  /\ pos = plen

----------------------------------------------------------------------------
----------------------------------------------------------------------------
(* C27: the pending record of a transaction (its temporary file already)   *)
(* appears only in a multi-file commit, once every file of the transaction *)
(* has its backup file and while every live file is still as the           *)
(* transaction found it; a live file is replaced in a multi-file commit    *)
(* only while the complete record pending/<ts> exists; and a single-file   *)
(* transaction has neither backup file nor pending record.                 *)
RecordAppears(t) == pend[t] = "none" /\ pend'[t] # "none"

LiveFileReplaced == pc = "save" /\ file' # file

C27_BackupThenRecordThenWrites ==
  [][/\ \A t \in TxIds :
          RecordAppears(t) =>
            /\ t = ntx
            /\ MultiFile
            /\ \A f \in files : bck[ntx][f] = file[f] /\ file[f] = pre[f]
     /\ (LiveFileReplaced /\ MultiFile) => pend[ntx] = "rec"
     /\ (ntx' \in TxIds /\ Cardinality(files') = 1) =>
          /\ pend'[ntx'] = "none"
          /\ \A f \in Files : bck'[ntx'][f] = NoFile]_vars

(* A multi-file commit has replaced one live file and not yet another,     *)
(* the record and the backup files in place.                               *)
C27_Witness ==
  /\ pc = "save"
  /\ MultiFile
  /\ pend[ntx] = "rec"
  /\ \E f \in files : file[f] # pre[f] /\ bck[ntx][f] = pre[f]
  /\ \E f \in files : file[f] = pre[f]

----------------------------------------------------------------------------
(* C28: when the first call commit(true) of a multi-file transaction that  *)
(* made its backup returns, no backup file and no pending record of the    *)
(* transaction is left, and after a success every live file is what        *)
(* SaveDataFile wrote.                                                     *)
C28_NothingLeftAtReturn ==
  (pc = "returned" /\ backup) =>
    /\ pend[ntx] = "none"
    /\ \A f \in files : bck[ntx][f] = NoFile
    /\ committed => \A f \in files : file[f] = Container(obj[f], ntx)

(* The part of C28 about a successful commit.                              *)
C28_AfterDelete ==
  (pc = "returned" /\ backup /\ committed) =>
    /\ pend[ntx] = "none"
    /\ \A f \in files : bck[ntx][f] = NoFile
    /\ \A f \in files : file[f] = Container(obj[f], ntx)

----------------------------------------------------------------------------
(* C30: when rollbackPendingOps has rolled back a record (restore, then    *)
(* UnlockMany of its files), no lock file of a file listed in the record   *)
(* is left.                                                                *)
C30_RollbackUnlocksAll ==
  [][(pc = "rec_restore" /\ pc' = "rec") =>
       \A f \in pendFiles[Head(recList)] : ~lock'[f]]_vars

----------------------------------------------------------------------------
(* C29: when LockMany has returned nil the caller holds every lock it      *)
(* asked for, and when it has returned an error no lock file that the      *)
(* call created is left.                                                   *)
C29_LockManyAllOrNothing ==
  \A p \in Procs :
    /\ lpc[p] = "locked" =>
         \A i \in DOMAIN sorted[p] :
           sorted[p][i] \in holds[p] /\ lockAge[sorted[p][i]] # -1
    /\ lpc[p] = "failed" => holds[p] = {}

----------------------------------------------------------------------------
(* C25: the i-th chunk a stream writer has written is sealed with the      *)
(* nonce of counter i (the context is the writer's own all along): w.c is  *)
(* the number of chunks sealed so far, counted from 1, and no two chunks   *)
(* of the writer have the same nonce.                                      *)
C25_NonceCounter ==
  /\ wc = Len(out)
  /\ \A i \in DOMAIN out : out[i].ctr = i
  /\ \A i, j \in DOMAIN out : i # j => out[i].ctr # out[j].ctr

(* The writer was given the plaintext in several Writes and has sealed     *)
(* two chunks or more, the last one, a short one, on Close.               *)
C25_Witness ==
  /\ spc = "closed"
  /\ split
  /\ Len(out) >= 2
  /\ Len(out[Len(out)].data) < ChunkSize
  /\ out[Len(out)].ctr = Len(out)

----------------------------------------------------------------------------
(* C26: when the process has died during a Save onto a complete key file,  *)
(* the key file is the complete previous one or the complete new one.      *)
C26_KeyFileOldOrNew ==
  (keySave.pc = "dead" /\ keySave.prev.len = KeyFileSize) =>
    \/ keyFile = keySave.prev
    \/ keyFile = KeyData(keySave)

----------------------------------------------------------------------------
(* C23: Decrypt of what Encrypt made of a message returns the message,     *)
(* the empty message and the messages of whole blocks included; Encrypt    *)
(* adds between 1 and BlockSize bytes of padding, up to a whole number of  *)
(* blocks.                                                                 *)
PaddingOf(enc, msg) == Len(enc) - 1 - BlockSize - MacSize - Len(msg)

C23_DecryptEncrypt ==
  /\ cres.op = "encrypt" =>
       /\ PaddingOf(cenc, cmsg) \in 1..BlockSize
       /\ (Len(cmsg) + PaddingOf(cenc, cmsg)) % BlockSize = 0
  /\ cres.op = "decrypt" => (cres.err = "nil" /\ cres.data = cmsg)

(* A message of two whole blocks, ending with a byte that reads as a       *)
(* padding of one byte, has been encrypted and decrypted.                  *)
C23_Witness ==
  /\ cres.op = "decrypt"
  /\ Len(cmsg) = 2 * BlockSize
  /\ cmsg[Len(cmsg)] = 1
  /\ PaddingOf(cenc, cmsg) = BlockSize
  /\ cres.data = cmsg

----------------------------------------------------------------------------
(* C24: the encryptedKey of a key made by NewKey is aesEncryptedKeySize    *)
(* bytes long (version, IV, the key padded to 80 bytes, MAC), which is     *)
(* the length DecryptKey and ReadEncryptedKey take; and ReadEncryptedKey   *)
(* of what WriteEncryptedKey wrote gives a key of the same KeyBytes bytes. *)
C24_WrappedKeySize ==
  /\ cres.op \in {"newkey", "writekey", "readkey"} =>
       /\ Len(cenc) = aesEncryptedKeySize
       /\ Len(cenc) = 1 + BlockSize + (KeyBytes + BlockSize) + MacSize
       /\ Len(cenc) = Keysize
       /\ Len(cmsg) = KeyBytes
  /\ cres.op = "writekey" => cres.err = "nil"
  /\ cres.op = "readkey" => (cres.err = "nil" /\ cres.data = cmsg)

(* A key has been written, other bytes after it, and read back under       *)
(* another mask.                                                           *)
C24_Witness ==
  /\ cres.op = "readkey"
  /\ Len(cfile) > aesEncryptedKeySize
  /\ cres.data = cmsg
  /\ Len(cres.data) = KeyBytes

----------------------------------------------------------------------------
(* C21: an encrypted container written for final name F, by SaveDataFile   *)
(* or by OpenBlobWrite, is bound to F.  ReadDataFile and OpenBlobRead of   *)
(* the same bytes at a name whose context starts with four other bytes     *)
(* return an error; at the name F neither fails to decrypt, ReadDataFile   *)
(* into a zero value of the object's type that can be decoded into gives   *)
(* the object back, and OpenBlobRead of raw bytes that are not compressed  *)
(* returns a reader at the first byte of the payload.                      *)
BlobEncrypted == blob.final # 0 /\ Has(blob.c.hdr.flags, optEncrypted)
OtherContext == Context(blob.at)[1] # Context(blob.final)[1]
BlobCallDone == bres.op \in {"ReadDataFile", "OpenBlobRead"}

C21_BoundToFinalName ==
  (BlobEncrypted /\ BlobCallDone) =>
    /\ OtherContext => bres.err # "nil"
    /\ blob.at = blob.final =>
          /\ bres.err # "ErrDecryptFailed"
          /\ (bres.op = "ReadDataFile" /\ IsBinaryMarshaler(blob.o)) =>
                bres.err \in {"nil", "not a BinaryUnmarshaler"}
          /\ (bres.op = "ReadDataFile" /\ blob.o.kind # "marshalerOnly") =>
                /\ bres.err = "nil"
                /\ blob.o.kind = "bytes" => bres.data = blob.o.val
                /\ blob.o.kind # "bytes" => bres.data = <<blob.o.val>>
          /\ (/\ bres.op = "OpenBlobRead"
              /\ blob.o.kind = "bytes"
              /\ ~Has(blob.c.hdr.flags, optCompressed)) =>
                /\ bres.err = "nil"
                /\ rdr.open
                /\ Drop(Dec(blob.c), rdr.start) = blob.o.val
                /\ rdr.off = rdr.start

(* A blob written to a temporary name failed to open there, was renamed to *)
(* its final name and opened.                                              *)
C21_WitnessFinalName ==
  /\ BlobEncrypted
  /\ blob.at = blob.final
  /\ bres.op = "OpenBlobRead"
  /\ bres.err = "nil"
  /\ rdr.open
  /\ Len(blob.o.val) > 0
  /\ rdr.start > HeaderSize + PadLenSize

(* The same bytes at another name with another context were refused.       *)
C21_Witness ==
  /\ BlobEncrypted
  /\ OtherContext
  /\ BlobCallDone
  /\ bres.err = "ErrDecryptFailed"

----------------------------------------------------------------------------
(* C22: for a reader OpenBlobRead returned, after any Seek and Read calls, *)
(* those Seek calls that return an error included, an offset Seek returns  *)
(* is counted from the first byte of the payload, and the bytes Read       *)
(* delivers are the bytes of the payload at the offset the reader is at,   *)
(* never a byte of the header or of the padding.                           *)
Payload == blob.o.val

C22_OffsetsAndBytesOfPayload ==
  /\ (bres.op = "Seek" /\ bres.err = "nil") =>
        /\ bres.n >= 0
        /\ bres.n = rdr.off - rdr.start
  /\ bres.op = "Read" =>
        /\ bres.from >= 0
        /\ \A i \in DOMAIN bres.data : bres.data[i] \in Values
        /\ bres.data = SubSeq(Payload, bres.from + 1, bres.from + bres.n)

(* As long as no Seek has returned an error, the same.                     *)
C22_WhileNoSeekFailed ==
  ~bres.seekFailed =>
    /\ bres.op = "Seek" => bres.n >= 0 /\ bres.n = rdr.off - rdr.start
    /\ bres.op = "Read" =>
          /\ bres.from >= 0
          /\ bres.data = SubSeq(Payload, bres.from + 1, bres.from + bres.n)

(* A Seek that succeeded was followed by a Read of bytes of the payload.   *)
C22_ReadAfterSeek ==
  /\ bres.op = "Read"
  /\ ~bres.seekFailed
  /\ bres.from > 0
  /\ bres.n > 0
  /\ rdr.enc

----------------------------------------------------------------------------
(* C31: a waiter in Lock removes a lock file only if the lock file is      *)
(* older than the waiter's deadline of 600 to 659 seconds: stale-lock      *)
(* reaping never removes a lock file younger than 600 seconds, also when   *)
(* the lock file was removed and created again since the waiter looked.    *)
ReapsLockOf(p) ==
  /\ lpc[p] = "remove"
  /\ lpc'[p] = "try"
  /\ lockAge[Cur(p)] # -1

C31_OnlyStaleLocksReaped ==
  [][\A p \in Procs :
       ReapsLockOf(p) =>
         /\ IsStale(lockAge[Cur(p)], deadline[p])
         /\ lockAge[Cur(p)] * TickSeconds >= StaleSeconds]_vars

----------------------------------------------------------------------------
(* C32: AES Decrypt returns ErrDecryptFailed and no plaintext, and does    *)
(* not panic, for every input that is not a well-formed ciphertext: fewer  *)
(* than 1+16+16+32 bytes, a length less one that is not a multiple of 16,  *)
(* a version other than 1, a MAC that does not match, or a padding that is *)
(* not a PKCS#7 padding.                                                   *)
MacMatches(d) ==
  SubSeq(d, Len(d) - MacSize + 1, Len(d))
    = Hash(SubSeq(d, 2 + BlockSize, Len(d) - MacSize))

ValidPadding(dec) ==
  /\ Len(dec) > 0
  /\ dec[Len(dec)] \in 1..BlockSize
  /\ \A i \in 0..(dec[Len(dec)] - 1) : dec[Len(dec) - i] = dec[Len(dec)]

WellFormed(d) ==
  /\ Len(d) >= 1 + BlockSize + BlockSize + MacSize
  /\ (Len(d) - 1) % BlockSize = 0
  /\ d[1] = 1
  /\ MacMatches(d)
  /\ ValidPadding(DecryptBlocks(SubSeq(d, 2 + BlockSize, Len(d) - MacSize)))

C32_MalformedIsRefused ==
  (cres.op = "decrypt" /\ ~WellFormed(cenc)) =>
    cres.err = "ErrDecryptFailed" /\ cres.data = <<>>

(* The same for the inputs whose MAC does not match, which is what can be  *)
(* made without the key.                                                   *)
C32_WithoutTheKey ==
  (/\ cres.op = "decrypt"
   /\ Len(cenc) > MacSize
   /\ ~MacMatches(cenc)) =>
    cres.err = "ErrDecryptFailed" /\ cres.data = <<>>

(* Data that is well formed is decrypted.                                  *)
C32_WellFormedIsDecrypted ==
  (cres.op = "decrypt" /\ WellFormed(cenc)) =>
    cres.err = "nil" /\ cres.data \o [i \in 1..PadSize(Len(cres.data)) |->
                                       PadSize(Len(cres.data))] = cmsg

----------------------------------------------------------------------------
(* C33: when the outer flags byte of a file that was written encrypted is  *)
(* replaced by another value, ReadDataFile and OpenBlobRead return an      *)
(* error and deliver no content: what a reader accepts is bound to the     *)
(* flags inside the authenticated stream.                                  *)
Tampered ==
  /\ blob.final # 0
  /\ blob.at = blob.final
  /\ blob.c.key
  /\ blob.c.hdr.flags # InnerFlags(blob.c)

C33_TamperedFlagsRefused ==
  (Tampered /\ BlobCallDone) => bres.err # "nil" /\ ~rdr.open

(* The same while the replaced byte still says that the file is encrypted. *)
C33_WhileEncryptedBitSet ==
  (Tampered /\ BlobCallDone /\ Has(blob.c.hdr.flags, optEncrypted)) =>
    /\ ~rdr.open
    /\ bres.err \in {"wrong encrypted header",
                     "blob files is not raw bytes",
                     "blob files cannot be compressed"}

(* The header check refused a tampered file.                               *)
C33_RefusedByHeaderCheck ==
  /\ Tampered
  /\ BlobCallDone
  /\ bres.err = "wrong encrypted header"

----------------------------------------------------------------------------
(* C36: every container the store writes, by SaveDataFile, CreateEmptyFile *)
(* or OpenBlobWrite, has a flags byte whose encoding is one of 1, 2, 3, 4, *)
(* whose encrypted and padded bits are set exactly when the store has a    *)
(* master key, and in which the raw-bytes encoding never comes with the    *)
(* compressed bit.                                                         *)
WrittenFlags == blob.c.hdr.flags

EncodingAndKeyBits ==
  /\ Encoding(WrittenFlags) \in {optJSONEncoded, optGOBEncoded,
                                 optBinaryEncoded, optRawBytes}
  /\ Has(WrittenFlags, optEncrypted) <=> masterKey
  /\ Has(WrittenFlags, optPadded) <=> masterKey

C36_FlagsOfWrittenContainers ==
  blob.final # 0 =>
    /\ EncodingAndKeyBits
    /\ ~(Encoding(WrittenFlags) = optRawBytes
           /\ Has(WrittenFlags, optCompressed))

(* The encoding and the key bits are as said, and raw bytes are compressed *)
(* only by a store that compresses and only by writeFile.                  *)
C36_RawCompressedOnlyByWriteFile ==
  blob.final # 0 =>
    /\ EncodingAndKeyBits
    /\ (Encoding(WrittenFlags) = optRawBytes
          /\ Has(WrittenFlags, optCompressed)) =>
         /\ compress
         /\ blob.c = SaveDataFile(blob.final, blob.o, 0)
              \/ \E n \in 1..MaxPad :
                   blob.c = SaveDataFile(blob.final, blob.o, n)

----------------------------------------------------------------------------
(* C35: OpenBlobRead succeeds only on containers whose encoding is raw     *)
(* bytes (4) and whose compressed bit is clear; for every other value of   *)
(* the flags byte it returns an error and hands out no reader.             *)
RawNotCompressed(flags) ==
  Encoding(flags) = optRawBytes /\ ~Has(flags, optCompressed)

C35_OnlyRawUncompressedOpens ==
  (bres.op = "OpenBlobRead" /\ ~RawNotCompressed(blob.c.hdr.flags)) =>
    bres.err # "nil" /\ ~rdr.open

(* The same of the flags bytes the store writes, and of bit 2 of the flags *)
(* in place of the encoding.                                               *)
C35_FlagsTheStoreWrites ==
  /\ (bres.op = "OpenBlobRead"
        /\ Encoding(blob.c.hdr.flags) \in 1..4
        /\ ~RawNotCompressed(blob.c.hdr.flags)) =>
       bres.err # "nil" /\ ~rdr.open
  /\ (bres.op = "OpenBlobRead" /\ bres.err = "nil") =>
       /\ Has(blob.c.hdr.flags, optRawBytes)
       /\ ~Has(blob.c.hdr.flags, optCompressed)

----------------------------------------------------------------------------
(* C34: whenever the stream reader decrypts a chunk, the chunk index it    *)
(* derives from its plaintext offset, off / chunkSize + 1, is the index of *)
(* the chunk of ciphertext the input is positioned at; after any Read and  *)
(* Seek calls, those that returned an error included.  readChunk is called *)
(* with an empty buffer and decrypts when the input is not at its end.     *)
WouldDecrypt == spc = "read" /\ buf = <<>> /\ fpos < Len(out)

C34_NonceIndexIsInputPosition ==
  WouldDecrypt => ChunkCounter(off) = fpos + 1

(* The same on a stream of which no chunk is corrupted.                    *)
C34_OnIntactStream ==
  (WouldDecrypt /\ corrupt = 0) => ChunkCounter(off) = fpos + 1

(* A Seek has put the reader at the start of a later chunk, which the next *)
(* Read decrypts.                                                          *)
C34_AfterSeek ==
  /\ WouldDecrypt
  /\ res.op = "seek"
  /\ fpos > 0

----------------------------------------------------------------------------
(* C37: when createBackup returns an error, because a backup copy failed   *)
(* or because the pending record could not be written, no backup file of   *)
(* the attempt remains, no pending record exists for it and the live files *)
(* are unchanged.                                                          *)
CreateBackupFailed ==
  /\ pc = "returned"
  /\ ntx \in TxIds
  /\ MultiFile
  /\ commit
  /\ ~backup
  /\ calls = 1
  /\ crashPc = "none"

C37_FailedBackupLeavesNothing ==
  CreateBackupFailed =>
    /\ \A f \in Files : bck[ntx][f] = NoFile
    /\ pend[ntx] = "none"
    /\ \A f \in files : file[f] = pre[f]

(* The same when it was a backup copy that failed, and the live files in   *)
(* both cases.                                                             *)
C37_WhenACopyFailed ==
  CreateBackupFailed =>
    /\ \A f \in files : file[f] = pre[f]
    /\ errorList # <<>> =>
         /\ \A f \in Files : bck[ntx][f] = NoFile
         /\ pend[ntx] = "none"


----------------------------------------------------------------------------
(* C38: the process died inside restore, after any number of its renames,  *)
(* and New() runs restore again on the record of that transaction: the     *)
(* record is read, restore leaves only by ending or by another death, and  *)
(* when it ends every listed file has its content from before the update   *)
(* and the pending record is removed.                                      *)
RestoreAgain ==
  /\ crashPc = "restore"
  /\ ntx \in TxIds
  /\ recList # <<>>
  /\ Head(recList) = ntx

C38_RestoreIsRerunnable ==
  [][/\ (RestoreAgain /\ pc = "rec") => pc' \in {"rec_restore", "dead"}
     /\ (RestoreAgain /\ pc = "rec_restore") =>
          /\ pc' \in {"rec_restore", "rec", "dead"}
          /\ pc' = "rec" =>
               /\ \A f \in pendFiles[ntx] : file'[f] = pre[f]
               /\ pendFiles[ntx] = files
               /\ pend'[ntx] = "none"
               /\ ntx \notin {recList'[i] : i \in 1..Len(recList')}]_vars

(* New() is running restore on a backup of which one rename had happened   *)
(* before the process died (that backup file is gone, the file is          *)
(* restored) while the backup file of another listed file is still there.  *)
C38_HalfRestored ==
  /\ RestoreAgain
  /\ pc = "rec_restore"
  /\ MultiFile
  /\ \E f \in files : /\ st[f] = "todo"
                      /\ bck[ntx][f] = NoFile
                      /\ file[f] = pre[f]
  /\ \E f \in files : /\ st[f] = "todo"
                      /\ bck[ntx][f] # NoFile


----------------------------------------------------------------------------
(* C39: CreateEmptyFile on a name that exists returns an error and leaves  *)
(* the file as it is; so a cache whose file exists keeps its entries when  *)
(* autocertcache.New is called on it: Keys returns what it returned before.*)
NewOnExisting ==
  /\ Exists(blob, fileName)
  /\ bres'.op = "New"

C39_CreateEmptyFileNeverOverwrites ==
  [][NewOnExisting =>
       /\ bres'.err # "nil"
       /\ blob' = blob
       /\ ReadDataFile(fileName, blob'.c, CacheContent(0))
            = ReadDataFile(fileName, blob.c, CacheContent(0))]_vars

(* New was called on a cache that holds entries, and they are there.       *)
C39_Witness ==
  /\ bres.op = "New"
  /\ bres.err = "EEXIST"
  /\ Exists(blob, fileName)
  /\ blob.o.val > 0
  /\ ReadDataFile(fileName, blob.c, CacheContent(0)).obj = blob.o


----------------------------------------------------------------------------
(* C40: with one caller and any list of names, repeated names included:    *)
(* when LockMany has returned every requested lock file exists, every      *)
(* Unlock of the matching UnlockMany finds its lock file, so that          *)
(* UnlockMany returns nil, and when it has returned none of them is left.   *)
Requested(p) == {sorted[p][i] : i \in 1..Len(sorted[p])}
UnlockStep(p) == lpc[p] \in {"locked", "unlock"} /\ idx'[p] # idx[p]
UnlockManyIsRight(p) ==
  /\ lpc[p] = "locked" => \A f \in Requested(p) : lockAge[f] # -1
  /\ UnlockStep(p) =>
       /\ lockAge[Cur(p)] # -1
       /\ lpc'[p] = "idle" => \A f \in Requested(p) : lockAge'[f] = -1

C40_LockManyUnlockManyAnyList ==
  [][UnlockManyIsRight(Caller)]_vars

(* The same for the lists in which every name occurs once.                 *)
EachNameOnce(p) ==
  \A i, j \in 1..Len(sorted[p]) : i # j => sorted[p][i] # sorted[p][j]

C40_WhenEachNameOccursOnce ==
  [][EachNameOnce(Caller) => UnlockManyIsRight(Caller)]_vars

(* LockMany holds the lock of a name and waits for the lock of the same    *)
(* name, which only the stale check will end.                              *)
C40_WaitsForItsOwnLock ==
  /\ lpc[Caller] = "stat"
  /\ Cur(Caller) \in holds[Caller]
  /\ lockAge[Cur(Caller)] = 0

(* UnlockMany is at the second Unlock of a name given twice.               *)
C40_SecondUnlockOfAName ==
  /\ lpc[Caller] = "unlock"
  /\ lockAge[Cur(Caller)] = -1
  /\ ~EachNameOnce(Caller)

====
